---- MODULE Spec2Model ----
(***************************************************************************)
(* FutureChamp: board representation, move generation, make_move, the FEN   *)
(* loader and printer, apply_uci_move, the iterative-deepening search and   *)
(* the UCI command loop, as a state machine.                                *)
(*                                                                          *)
(* Bitboards are modelled as sets of squares (bit i set <=> i \in set), so  *)
(* overlapping piece and colour boards are representable exactly as in the  *)
(* code.  Strings are sequences of one-character strings.                   *)
(***************************************************************************)
EXTENDS Integers, Sequences, FiniteSets, TLC

(***************************************************************************)
(* Enumerations of board.hpp, as the sources use them.                      *)
(***************************************************************************)
NO_PIECE == 0
PAWN == 1
KNIGHT == 2
BISHOP == 3
ROOK == 4
QUEEN == 5
KING == 6
WHITE == 0
BLACK == 1

\* Move flags of the packed move layout (6 bits from, 6 bits to, 2 bits flag,
\* 2 bits promotion kind).
MOVE_NORMAL == 0
MOVE_PROMOTION == 1
MOVE_EN_PASSANT == 2
MOVE_CASTLE == 3

Squares == 0..63
PieceTypes == PAWN..KING

file_of(sq) == sq % 8
rank_of(sq) == sq \div 8

Abs(x) == IF x < 0 THEN -x ELSE x
MinOf(S) == CHOOSE x \in S : \A y \in S : x <= y
MaxOf(S) == CHOOSE x \in S : \A y \in S : x >= y

\* The squares of a bitboard in the order pop_lsb yields them (ascending).
SqSeq == [i \in 1..64 |-> i - 1]
LsbOrder(bb) == SelectSeq(SqSeq, LAMBDA s : s \in bb)

RECURSIVE Flatten(_)
Flatten(ss) == IF ss = <<>> THEN <<>> ELSE Head(ss) \o Flatten(Tail(ss))

SeqToSet(s) == {s[i] : i \in 1..Len(s)}

\* F(v), with v computed once.
Bind(v, F(_)) == CHOOSE r \in {F(x) : x \in {v}} : TRUE

\* The sequence with its elements computed once.
Eager(seq) == SelectSeq(seq, LAMBDA x : TRUE)

(***************************************************************************)
(* Packed moves.                                                            *)
(***************************************************************************)
Bitboards_make_move(from, to, flags, promo) ==
    from + 64 * to + 4096 * flags + 16384 * promo
move_from(m) == m % 64
move_to(m) == (m \div 64) % 64
move_flags(m) == (m \div 4096) % 4
move_promotion(m) == (m \div 16384) % 4
is_promotion(m) == move_flags(m) = MOVE_PROMOTION
is_castle(m) == move_flags(m) = MOVE_CASTLE

(***************************************************************************)
(* Board: pieces[pt] and colors[c] are the bitboards.                       *)
(***************************************************************************)
EmptyBoard ==
    [pieces |-> [pt \in PieceTypes |-> {}],
     colors |-> [c \in {WHITE, BLACK} |-> {}],
     side_to_move |-> WHITE,
     castling |-> [c \in {WHITE, BLACK} |-> [w \in 0..1 |-> FALSE]],
     en_passant_square |-> -1,
     halfmove_clock |-> 0,
     fullmove_number |-> 1]

add_piece(b, square, piece_type, color) ==
    IF piece_type = NO_PIECE THEN b
    ELSE [b EXCEPT !.pieces[piece_type] = @ \cup {square},
                   !.colors[color] = @ \cup {square}]

remove_piece(b, square) ==
    [b EXCEPT !.pieces = [pt \in PieceTypes |-> b.pieces[pt] \ {square}],
              !.colors = [c \in {WHITE, BLACK} |-> b.colors[c] \ {square}]]

piece_at(b, square) ==
    IF square < 0 \/ square >= 64 THEN NO_PIECE
    ELSE IF square \in b.pieces[PAWN] THEN PAWN
    ELSE IF square \in b.pieces[KNIGHT] THEN KNIGHT
    ELSE IF square \in b.pieces[BISHOP] THEN BISHOP
    ELSE IF square \in b.pieces[ROOK] THEN ROOK
    ELSE IF square \in b.pieces[QUEEN] THEN QUEEN
    ELSE IF square \in b.pieces[KING] THEN KING
    ELSE NO_PIECE

color_at(b, square) ==
    IF square < 0 \/ square >= 64 THEN -1
    ELSE IF square \in b.colors[WHITE] THEN WHITE
    ELSE IF square \in b.colors[BLACK] THEN BLACK
    ELSE -1

is_empty(b, square) == piece_at(b, square) = NO_PIECE
pieces_of_color(b, color) == b.colors[color]
all_pieces(b) == b.colors[WHITE] \cup b.colors[BLACK]

(***************************************************************************)
(* Attack sets.                                                             *)
(***************************************************************************)
OnBoard(f, r) == f >= 0 /\ f < 8 /\ r >= 0 /\ r < 8

\* The 64 entries of the table of knight_attacks are the knight's jumps.
KnightTable ==
    [sq \in Squares |->
        {sq2 \in Squares :
            LET df == Abs(file_of(sq2) - file_of(sq))
                dr == Abs(rank_of(sq2) - rank_of(sq))
            IN (df = 1 /\ dr = 2) \/ (df = 2 /\ dr = 1)}]
knight_attacks(sq) == KnightTable[sq]

\* The 64 entries of the table of king_attacks, each written as the set of
\* its bits, a1 first.  The entries of b1..h1 hold the square itself and not
\* the square straight ahead.
KingTable ==
    <<{1, 8, 9}, {0, 1, 2, 8, 10}, {1, 2, 3, 9, 11}, {2, 3, 4, 10, 12},
      {3, 4, 5, 11, 13}, {4, 5, 6, 12, 14}, {5, 6, 7, 13, 15}, {6, 7, 14},
      {0, 1, 9, 16, 17}, {0, 1, 2, 8, 10, 16, 17, 18}, {1, 2, 3, 9, 11, 17, 18, 19}, {2, 3, 4, 10, 12, 18, 19, 20},
      {3, 4, 5, 11, 13, 19, 20, 21}, {4, 5, 6, 12, 14, 20, 21, 22}, {5, 6, 7, 13, 15, 21, 22, 23}, {6, 7, 14, 22, 23},
      {8, 9, 17, 24, 25}, {8, 9, 10, 16, 18, 24, 25, 26}, {9, 10, 11, 17, 19, 25, 26, 27}, {10, 11, 12, 18, 20, 26, 27, 28},
      {11, 12, 13, 19, 21, 27, 28, 29}, {12, 13, 14, 20, 22, 28, 29, 30}, {13, 14, 15, 21, 23, 29, 30, 31}, {14, 15, 22, 30, 31},
      {16, 17, 25, 32, 33}, {16, 17, 18, 24, 26, 32, 33, 34}, {17, 18, 19, 25, 27, 33, 34, 35}, {18, 19, 20, 26, 28, 34, 35, 36},
      {19, 20, 21, 27, 29, 35, 36, 37}, {20, 21, 22, 28, 30, 36, 37, 38}, {21, 22, 23, 29, 31, 37, 38, 39}, {22, 23, 30, 38, 39},
      {24, 25, 33, 40, 41}, {24, 25, 26, 32, 34, 40, 41, 42}, {25, 26, 27, 33, 35, 41, 42, 43}, {26, 27, 28, 34, 36, 42, 43, 44},
      {27, 28, 29, 35, 37, 43, 44, 45}, {28, 29, 30, 36, 38, 44, 45, 46}, {29, 30, 31, 37, 39, 45, 46, 47}, {30, 31, 38, 46, 47},
      {32, 33, 41, 48, 49}, {32, 33, 34, 40, 42, 48, 49, 50}, {33, 34, 35, 41, 43, 49, 50, 51}, {34, 35, 36, 42, 44, 50, 51, 52},
      {35, 36, 37, 43, 45, 51, 52, 53}, {36, 37, 38, 44, 46, 52, 53, 54}, {37, 38, 39, 45, 47, 53, 54, 55}, {38, 39, 46, 54, 55},
      {40, 41, 49, 56, 57}, {40, 41, 42, 48, 50, 56, 57, 58}, {41, 42, 43, 49, 51, 57, 58, 59}, {42, 43, 44, 50, 52, 58, 59, 60},
      {43, 44, 45, 51, 53, 59, 60, 61}, {44, 45, 46, 52, 54, 60, 61, 62}, {45, 46, 47, 53, 55, 61, 62, 63}, {46, 47, 54, 62, 63},
      {48, 49, 57}, {48, 49, 50, 56, 58}, {49, 50, 51, 57, 59}, {50, 51, 52, 58, 60},
      {51, 52, 53, 59, 61}, {52, 53, 54, 60, 62}, {53, 54, 55, 61, 63}, {54, 55, 62}>>
king_attacks(sq) == KingTable[sq + 1]

\* The squares of one ray from sq in direction (dx, dy), nearest first.
RayFrom(sq, dx, dy) ==
    LET n == Cardinality({s \in 1..7 :
                 OnBoard(file_of(sq) + dx * s, rank_of(sq) + dy * s)})
    IN [s \in 1..n |-> (file_of(sq) + dx * s) + 8 * (rank_of(sq) + dy * s)]

BishopRays ==
    [sq \in Squares |-> <<RayFrom(sq, 1, 1), RayFrom(sq, 1, -1),
                          RayFrom(sq, -1, 1), RayFrom(sq, -1, -1)>>]
RookRays ==
    [sq \in Squares |-> <<RayFrom(sq, 0, 1), RayFrom(sq, 0, -1),
                          RayFrom(sq, 1, 0), RayFrom(sq, -1, 0)>>]

\* One ray scan: every square up to and including the first blocker.
RayScan(ray, blockers) ==
    LET hit == {i \in 1..Len(ray) : ray[i] \in blockers}
        last == IF hit = {} THEN Len(ray) ELSE MinOf(hit)
    IN {ray[i] : i \in 1..last}

bishop_attacks(sq, blockers) ==
    UNION {RayScan(BishopRays[sq][d], blockers) : d \in 1..4}
rook_attacks(sq, blockers) ==
    UNION {RayScan(RookRays[sq][d], blockers) : d \in 1..4}
queen_attacks(sq, blockers) ==
    bishop_attacks(sq, blockers) \cup rook_attacks(sq, blockers)

pawn_attacks(sq, color) ==
    LET file == file_of(sq)
        rank == rank_of(sq)
        forward == IF color = WHITE THEN 1 ELSE -1
        ok == rank + forward >= 0 /\ rank + forward < 8
    IN (IF file > 0 /\ ok THEN {sq + forward * 8 - 1} ELSE {}) \cup
       (IF file < 7 /\ ok THEN {sq + forward * 8 + 1} ELSE {})

is_square_attacked(b, square, color) ==
    LET enemy(pt) == b.pieces[pt] \cap b.colors[color]
        all == all_pieces(b)
    IN \/ pawn_attacks(square, 1 - color) \cap enemy(PAWN) # {}
       \/ knight_attacks(square) \cap enemy(KNIGHT) # {}
       \/ king_attacks(square) \cap enemy(KING) # {}
       \/ bishop_attacks(square, all) \cap (enemy(BISHOP) \cup enemy(QUEEN)) # {}
       \/ rook_attacks(square, all) \cap (enemy(ROOK) \cup enemy(QUEEN)) # {}

\* The first square (lowest index) holding a king of the colour, or -1.
find_king(b, color) ==
    LET ks == {sq \in b.pieces[KING] :
                  piece_at(b, sq) = KING /\ color_at(b, sq) = color}
    IN IF ks = {} THEN -1 ELSE MinOf(ks)

is_in_check(b, color) ==
    LET king_sq == find_king(b, color)
    IN IF king_sq = -1 THEN FALSE
       ELSE is_square_attacked(b, king_sq, 1 - color)

(***************************************************************************)
(* Board::generate_moves: the pseudo-legal moves, in generation order.      *)
(***************************************************************************)
Quiet(from, to) == Bitboards_make_move(from, to, MOVE_NORMAL, 0)

Promotions(from, to) ==
    <<Bitboards_make_move(from, to, MOVE_PROMOTION, 0),
      Bitboards_make_move(from, to, MOVE_PROMOTION, 1),
      Bitboards_make_move(from, to, MOVE_PROMOTION, 2),
      Bitboards_make_move(from, to, MOVE_PROMOTION, 3)>>

PawnMoves(b, sq) ==
    LET side == b.side_to_move
        rank == rank_of(sq)
        file == file_of(sq)
        forward_dir == IF side = WHITE THEN 8 ELSE -8
        forward == sq + forward_dir
        start_rank == IF side = WHITE THEN 1 ELSE 6
        enemy_pieces == pieces_of_color(b, 1 - side)
        PromoRank(r) == (side = WHITE /\ r = 7) \/ (side = BLACK /\ r = 0)
        double_forward == forward + forward_dir
        pushes ==
            IF forward >= 0 /\ forward < 64 /\ is_empty(b, forward)
            THEN IF PromoRank(rank_of(forward))
                 THEN Promotions(sq, forward)
                 ELSE <<Quiet(sq, forward)>> \o
                      (IF rank = start_rank /\ double_forward >= 0
                          /\ double_forward < 64 /\ is_empty(b, double_forward)
                       THEN <<Quiet(sq, double_forward)>> ELSE <<>>)
            ELSE <<>>
        left_cap == sq + forward_dir - 1
        right_cap == sq + forward_dir + 1
        capture_targets ==
            (IF file > 0 /\ left_cap >= 0 /\ left_cap < 64
             THEN <<left_cap>> ELSE <<>>) \o
            (IF file < 7 /\ right_cap >= 0 /\ right_cap < 64
             THEN <<right_cap>> ELSE <<>>)
        CaptureMoves(cap) ==
            IF cap \in enemy_pieces
            THEN IF PromoRank(rank_of(cap)) THEN Promotions(sq, cap)
                 ELSE <<Quiet(sq, cap)>>
            ELSE IF cap = b.en_passant_square
                 THEN <<Bitboards_make_move(sq, cap, MOVE_EN_PASSANT, 0)>>
                 ELSE <<>>
    IN pushes \o
       Flatten([i \in 1..Len(capture_targets) |-> CaptureMoves(capture_targets[i])])

\* Moves of one non-pawn piece: its attack set minus the mover's own pieces.
TargetMoves(b, sq, attacks) ==
    LET tos == LsbOrder(attacks \ pieces_of_color(b, b.side_to_move))
    IN [i \in 1..Len(tos) |-> Quiet(sq, tos[i])]

\* CASTLING_DATA[color][wing]: wing 0 = kingside, 1 = queenside.
CASTLING_DATA ==
    [c \in {WHITE, BLACK} |->
        IF c = WHITE
        THEN <<[king_from |-> 4, king_to |-> 6, rook_from |-> 7, rook_to |-> 5,
                path_mask |-> {5, 6}, check_squares_mask |-> {5, 6}],
               [king_from |-> 4, king_to |-> 2, rook_from |-> 0, rook_to |-> 3,
                path_mask |-> {1, 2, 3}, check_squares_mask |-> {2, 3}]>>
        ELSE <<[king_from |-> 60, king_to |-> 62, rook_from |-> 63, rook_to |-> 61,
                path_mask |-> {61, 62}, check_squares_mask |-> {61, 62}],
               [king_from |-> 60, king_to |-> 58, rook_from |-> 56, rook_to |-> 59,
                path_mask |-> {57, 58, 59}, check_squares_mask |-> {58, 59}]>>]

CastleMoves(b, wing) ==
    LET side == b.side_to_move
        data == CASTLING_DATA[side][wing + 1]
        path_clear == all_pieces(b) \cap data.path_mask = {}
        safe == \A check_sq \in data.check_squares_mask :
                    ~is_square_attacked(b, check_sq, 1 - side)
    IN IF b.castling[side][wing] /\ path_clear /\ safe
       THEN <<Bitboards_make_move(data.king_from, data.king_to, MOVE_CASTLE, 0)>>
       ELSE <<>>

KingMoves(b, sq) ==
    TargetMoves(b, sq, king_attacks(sq)) \o
    (IF ~is_in_check(b, b.side_to_move)
     THEN CastleMoves(b, 0) \o CastleMoves(b, 1)
     ELSE <<>>)

generate_moves(b) ==
    LET side == b.side_to_move
        all == all_pieces(b)
        Of(pt) == LsbOrder(b.pieces[pt] \cap b.colors[side])
        Each(sqs, Gen(_)) == Flatten([i \in 1..Len(sqs) |-> Gen(sqs[i])])
    IN Each(Of(PAWN), LAMBDA sq : PawnMoves(b, sq)) \o
       Each(Of(KNIGHT), LAMBDA sq : TargetMoves(b, sq, knight_attacks(sq))) \o
       Each(Of(BISHOP), LAMBDA sq : TargetMoves(b, sq, bishop_attacks(sq, all))) \o
       Each(Of(ROOK), LAMBDA sq : TargetMoves(b, sq, rook_attacks(sq, all))) \o
       Each(Of(QUEEN), LAMBDA sq : TargetMoves(b, sq, queen_attacks(sq, all))) \o
       Each(Of(KING), LAMBDA sq : KingMoves(b, sq))

(***************************************************************************)
(* generate_moves(board, list) of movegen: the pseudo-legal moves in the    *)
(* fixed buffer, in generation order.                                       *)
(***************************************************************************)
MoveListPawnMoves(b, sq) ==
    LET side == b.side_to_move
        rank == rank_of(sq)
        file == file_of(sq)
        forward_dir == IF side = WHITE THEN 8 ELSE -8
        forward == sq + forward_dir
        start_rank == IF side = WHITE THEN 1 ELSE 6
        enemy_pieces == pieces_of_color(b, 1 - side)
        PromoRank(r) == (side = WHITE /\ r = 7) \/ (side = BLACK /\ r = 0)
        double_forward == sq + 2 * forward_dir
        pushes ==
            IF forward >= 0 /\ forward < 64 /\ is_empty(b, forward)
            THEN IF PromoRank(rank_of(forward))
                 THEN Promotions(sq, forward)
                 ELSE <<Quiet(sq, forward)>> \o
                      (IF rank = start_rank /\ is_empty(b, double_forward)
                       THEN <<Quiet(sq, double_forward)>> ELSE <<>>)
            ELSE <<>>
        Capture(cap, cap_file) ==
            IF cap >= 0 /\ cap < 64 /\ file_of(cap) = cap_file
            THEN (IF cap \in enemy_pieces
                  THEN IF PromoRank(rank_of(cap)) THEN Promotions(sq, cap)
                       ELSE <<Quiet(sq, cap)>>
                  ELSE <<>>) \o
                 (IF cap = b.en_passant_square
                  THEN <<Bitboards_make_move(sq, cap, MOVE_EN_PASSANT, 0)>>
                  ELSE <<>>)
            ELSE <<>>
    IN pushes \o Capture(sq + forward_dir - 1, file - 1)
              \o Capture(sq + forward_dir + 1, file + 1)

\* The castling move of a wing (0 = kingside, 1 = queenside) for the king on
\* sq: the loop over the squares from the king's neighbour up to, but not
\* including, the landing square, and the two attack tests.
MoveListCastleMoves(b, sq, wing) ==
    LET side == b.side_to_move
        kingside_sq == IF side = WHITE THEN 6 ELSE 62
        queenside_sq == IF side = WHITE THEN 2 ELSE 58
        land == IF wing = 0 THEN kingside_sq ELSE queenside_sq
        step == IF wing = 0 THEN 1 ELSE -1
        walked == IF wing = 0 THEN (sq + 1)..(kingside_sq - 1)
                  ELSE (queenside_sq + 1)..(sq - 1)
        path_clear == \A s \in walked : is_empty(b, s)
    IN IF /\ b.castling[side][wing]
          /\ path_clear
          /\ ~is_square_attacked(b, sq + step, 1 - side)
          /\ ~is_square_attacked(b, land, 1 - side)
       THEN <<Bitboards_make_move(sq, land, MOVE_CASTLE, 0)>>
       ELSE <<>>

MoveListKingMoves(b, sq) ==
    TargetMoves(b, sq, king_attacks(sq)) \o
    (IF ~is_in_check(b, b.side_to_move)
     THEN MoveListCastleMoves(b, sq, 0) \o MoveListCastleMoves(b, sq, 1)
     ELSE <<>>)

movegen_generate_moves(b) ==
    LET side == b.side_to_move
        all == all_pieces(b)
        Of(pt) == LsbOrder(b.pieces[pt] \cap b.colors[side])
        Each(sqs, Gen(_)) == Flatten([i \in 1..Len(sqs) |-> Gen(sqs[i])])
    IN Each(Of(PAWN), LAMBDA sq : MoveListPawnMoves(b, sq)) \o
       Each(Of(KNIGHT), LAMBDA sq : TargetMoves(b, sq, knight_attacks(sq))) \o
       Each(Of(BISHOP), LAMBDA sq : TargetMoves(b, sq, bishop_attacks(sq, all))) \o
       Each(Of(ROOK), LAMBDA sq : TargetMoves(b, sq, rook_attacks(sq, all))) \o
       Each(Of(QUEEN), LAMBDA sq : TargetMoves(b, sq, queen_attacks(sq, all))) \o
       Each(Of(KING), LAMBDA sq : MoveListKingMoves(b, sq))

(***************************************************************************)
(* Search::make_move: the successor board.                                  *)
(***************************************************************************)
PromoPiece(promo) ==
    CASE promo = 0 -> KNIGHT
      [] promo = 1 -> BISHOP
      [] promo = 2 -> ROOK
      [] promo = 3 -> QUEEN

MakeCastle(b, from, to, color) ==
    LET b1 == add_piece(remove_piece(b, from), to, KING, color)
        rook_from == IF to > from THEN from + 3 ELSE from - 4
        rook_to == IF to > from THEN from + 1 ELSE from - 1
        b2 == add_piece(remove_piece(b1, rook_from), rook_to, ROOK, color)
    IN [b2 EXCEPT !.castling[color] = [w \in 0..1 |-> FALSE],
                  !.halfmove_clock = 0]

MakeEnPassant(b, from, to, color) ==
    LET b1 == add_piece(remove_piece(b, from), to, PAWN, color)
        captured_sq == to + (IF color = WHITE THEN -8 ELSE 8)
        b2 == remove_piece(b1, captured_sq)
    IN [b2 EXCEPT !.en_passant_square = -1, !.halfmove_clock = 0]

MakePromotion(b, from, to, color, captured, promo) ==
    LET b1 == remove_piece(b, from)
        b2 == IF captured # NO_PIECE THEN remove_piece(b1, to) ELSE b1
        b3 == add_piece(b2, to, PromoPiece(promo), color)
    IN [b3 EXCEPT !.en_passant_square = -1, !.halfmove_clock = 0]

MakeNormal(b, from, to, piece, color, captured) ==
    LET b1 == remove_piece(b, from)
        isCap == captured # NO_PIECE /\ captured # KING
        b2 == IF isCap THEN [remove_piece(b1, to) EXCEPT !.halfmove_clock = 0]
              ELSE b1
        b3 == add_piece(b2, to, piece, color)
        b4 == IF piece = PAWN
              THEN [b3 EXCEPT !.halfmove_clock = 0,
                              !.en_passant_square =
                                  IF Abs(to - from) = 16 THEN (from + to) \div 2
                                  ELSE -1]
              ELSE [b3 EXCEPT !.en_passant_square = -1]
        b5 == IF piece = KING
              THEN [b4 EXCEPT !.castling[color] = [w \in 0..1 |-> FALSE]]
              ELSE b4
        b6 == IF piece = ROOK
              THEN IF color = WHITE
                   THEN [b5 EXCEPT !.castling[WHITE] =
                            [w \in 0..1 |->
                               IF (w = 1 /\ from = 0) \/ (w = 0 /\ from = 7)
                               THEN FALSE ELSE @[w]]]
                   ELSE [b5 EXCEPT !.castling[BLACK] =
                            [w \in 0..1 |->
                               IF (w = 1 /\ from = 56) \/ (w = 0 /\ from = 63)
                               THEN FALSE ELSE @[w]]]
              ELSE b5
    IN IF captured = ROOK
       THEN [b6 EXCEPT !.castling =
                [c \in {WHITE, BLACK} |-> [w \in 0..1 |->
                    IF \/ (to = 0 /\ c = WHITE /\ w = 1)
                       \/ (to = 7 /\ c = WHITE /\ w = 0)
                       \/ (to = 56 /\ c = BLACK /\ w = 1)
                       \/ (to = 63 /\ c = BLACK /\ w = 0)
                    THEN FALSE ELSE @[c][w]]]]
       ELSE b6

make_move(board, move) ==
    LET from == move_from(move)
        to == move_to(move)
        flags == move_flags(move)
        promo == move_promotion(move)
        piece == piece_at(board, from)
        color == color_at(board, from)
        captured == piece_at(board, to)
        b0 == [board EXCEPT !.halfmove_clock = @ + 1]
        b1 == IF flags = MOVE_CASTLE THEN MakeCastle(b0, from, to, color)
              ELSE IF flags = MOVE_EN_PASSANT THEN MakeEnPassant(b0, from, to, color)
              ELSE IF flags = MOVE_PROMOTION
                   THEN MakePromotion(b0, from, to, color, captured, promo)
              ELSE MakeNormal(b0, from, to, piece, color, captured)
    IN [b1 EXCEPT !.side_to_move = 1 - color,
                  !.fullmove_number = IF color = BLACK THEN @ + 1 ELSE @]

\* Search::is_legal: the mover's king is not attacked after the move.
is_legal(board, move) ==
    LET test_board == make_move(board, move)
        our_color == board.side_to_move
        king_sq == find_king(test_board, our_color)
    IN IF king_sq = -1 THEN FALSE
       ELSE ~is_square_attacked(test_board, king_sq, 1 - our_color)

\* The legal moves, in generation order (generate_candidates).
generate_candidates(board) ==
    SelectSeq(generate_moves(board), LAMBDA m : is_legal(board, m))

(***************************************************************************)
(* Characters and strings.  A string is a sequence of one-character        *)
(* strings; Ascii gives the character codes the sources compute with.       *)
(***************************************************************************)
LowerLetters == <<"a", "b", "c", "d", "e", "f", "g", "h", "i", "j", "k", "l", "m",
                  "n", "o", "p", "q", "r", "s", "t", "u", "v", "w", "x", "y", "z">>
UpperLetters == <<"A", "B", "C", "D", "E", "F", "G", "H", "I", "J", "K", "L", "M",
                  "N", "O", "P", "Q", "R", "S", "T", "U", "V", "W", "X", "Y", "Z">>
DigitChars == <<"0", "1", "2", "3", "4", "5", "6", "7", "8", "9">>

IndexIn(seq, c) ==
    LET hit == {i \in 1..Len(seq) : seq[i] = c}
    IN IF hit = {} THEN 0 ELSE MinOf(hit)

\* The characters the model's strings are made of, and their codes.
Chars == SeqToSet(LowerLetters) \cup SeqToSet(UpperLetters) \cup
         SeqToSet(DigitChars) \cup {"/", "-", " "}
AsciiTable ==
    [c \in Chars |->
        IF IndexIn(LowerLetters, c) > 0 THEN 96 + IndexIn(LowerLetters, c)
        ELSE IF IndexIn(UpperLetters, c) > 0 THEN 64 + IndexIn(UpperLetters, c)
        ELSE IF IndexIn(DigitChars, c) > 0 THEN 47 + IndexIn(DigitChars, c)
        ELSE IF c = "/" THEN 47
        ELSE IF c = "-" THEN 45
        ELSE 32]
Ascii(c) == AsciiTable[c]

CharOf(code) ==
    IF code >= 97 /\ code <= 122 THEN LowerLetters[code - 96]
    ELSE IF code >= 65 /\ code <= 90 THEN UpperLetters[code - 64]
    ELSE IF code >= 48 /\ code <= 57 THEN DigitChars[code - 47]
    ELSE IF code = 47 THEN "/"
    ELSE IF code = 45 THEN "-"
    ELSE " "

islower(c) == Ascii(c) >= 97 /\ Ascii(c) <= 122
tolower(c) == IF Ascii(c) >= 65 /\ Ascii(c) <= 90 THEN CharOf(Ascii(c) + 32) ELSE c

\* operator>> on an istringstream: the whitespace-separated tokens.  Token k
\* runs from the k-th position that starts a run of non-blank characters to
\* the end of that run.
KthSmallest(S, k) == CHOOSE x \in S : Cardinality({y \in S : y < x}) = k - 1
Tokens(s) ==
    LET n == Len(s)
        starts == {i \in 1..n : s[i] # " " /\ (i = 1 \/ s[i - 1] = " ")}
        EndOf(st) == MinOf({j \in st..n : j = n \/ s[j + 1] = " "})
    IN [k \in 1..Cardinality(starts) |->
           LET st == KthSmallest(starts, k) IN SubSeq(s, st, EndOf(st))]

\* std::stoi on a string of decimal digits.
RECURSIVE stoi_from(_, _, _)
stoi_from(s, i, acc) ==
    IF i > Len(s) \/ IndexIn(DigitChars, s[i]) = 0 THEN acc
    ELSE stoi_from(s, i + 1, 10 * acc + (IndexIn(DigitChars, s[i]) - 1))
stoi(s) == stoi_from(s, 1, 0)

\* operator<< of a non-negative int.
RECURSIVE to_string(_)
to_string(n) ==
    IF n < 10 THEN <<DigitChars[n + 1]>>
    ELSE Append(to_string(n \div 10), DigitChars[(n % 10) + 1])

(***************************************************************************)
(* Board::set_from_fen and Board::get_fen.                                  *)
(***************************************************************************)
PieceOfLetter(pc) ==
    CASE pc = "p" -> PAWN
      [] pc = "n" -> KNIGHT
      [] pc = "b" -> BISHOP
      [] pc = "r" -> ROOK
      [] pc = "q" -> QUEEN
      [] pc = "k" -> KING
      [] OTHER -> NO_PIECE

\* What one character of board_str adds to the running square sq: '/' takes
\* 16 off, a digit '1'..'8' adds its value, a piece letter adds one, any
\* other character nothing.
IsPieceLetter(c) == PieceOfLetter(tolower(c)) # NO_PIECE
FenStep(c) ==
    IF c = "/" THEN -16
    ELSE IF Ascii(c) >= 49 /\ Ascii(c) <= 56 THEN Ascii(c) - 48
    ELSE IF IsPieceLetter(c) THEN 1
    ELSE 0

\* The loop over board_str.  sq starts at a8 (56); sq[i] is its value once
\* character i has been read.  The loop breaks at the first '/' that takes sq
\* below zero.  A piece letter read at a square in 0..63 is added there.
ParseBoardField(str) ==
    LET n == Len(str)
        step == [i \in 1..n |-> FenStep(str[i])]
        sq[i \in 0..n] == IF i = 0 THEN 56 ELSE sq[i - 1] + step[i]
        sqs == [i \in 1..n |-> sq[i - 1]]
        breaks == {i \in 1..n : str[i] = "/" /\ sqs[i] - 16 < 0}
        last == IF breaks = {} THEN n ELSE MinOf(breaks) - 1
        placed == {i \in 1..last : IsPieceLetter(str[i]) /\ sqs[i] >= 0 /\ sqs[i] < 64}
    IN [EmptyBoard EXCEPT
          !.pieces = [pt \in PieceTypes |->
              {sqs[i] : i \in {j \in placed : PieceOfLetter(tolower(str[j])) = pt}}],
          !.colors = [c \in {WHITE, BLACK} |->
              {sqs[i] : i \in {j \in placed :
                  (IF ~islower(str[j]) THEN WHITE ELSE BLACK) = c}}]]

\* set_from_fen: the value returned and the board left behind.  A missing
\* token reads as the empty string; the two counters keep the fresh board's
\* values when their token is missing.
set_from_fen(fen) ==
    LET toks == Tokens(fen)
        Tok(k) == IF k <= Len(toks) THEN toks[k] ELSE <<>>
        board_str == Tok(1)
        side_str == Tok(2)
        castling_str == Tok(3)
        ep_str == Tok(4)
        b1 == ParseBoardField(board_str)
        Has(c) == IndexIn(castling_str, c) > 0
        EpChar(k) == IF k <= Len(ep_str) THEN Ascii(ep_str[k]) ELSE 0
        b2 == [b1 EXCEPT
                 !.side_to_move = IF side_str = <<"w">> THEN WHITE ELSE BLACK,
                 !.castling = [c \in {WHITE, BLACK} |-> [w \in 0..1 |->
                     IF c = WHITE THEN (IF w = 0 THEN Has("K") ELSE Has("Q"))
                     ELSE (IF w = 0 THEN Has("k") ELSE Has("q"))]],
                 !.en_passant_square =
                     IF ep_str = <<"-">> THEN -1
                     ELSE (EpChar(1) - 97) + (EpChar(2) - 49) * 8,
                 !.halfmove_clock = IF Tok(5) # <<>> THEN stoi(Tok(5)) ELSE @,
                 !.fullmove_number = IF Tok(6) # <<>> THEN stoi(Tok(6)) ELSE @]
    IN [ok |-> TRUE, board |-> b2]

PieceLetter(p, c) ==
    LET up == <<"P", "N", "B", "R", "Q", "K">>[p]
    IN IF c = BLACK THEN tolower(up) ELSE up

\* One rank of the board field, files a..h, with the count of empty squares
\* carried along.
RECURSIVE FenRank(_, _, _, _, _)
FenRank(b, rank, file, empty, acc) ==
    IF file > 7 THEN (IF empty > 0 THEN acc \o to_string(empty) ELSE acc)
    ELSE LET sq == file + rank * 8
             p == piece_at(b, sq)
             c == color_at(b, sq)
         IN IF p = NO_PIECE THEN FenRank(b, rank, file + 1, empty + 1, acc)
            ELSE FenRank(b, rank, file + 1, 0,
                     (IF empty > 0 THEN acc \o to_string(empty) ELSE acc)
                         \o <<PieceLetter(p, c)>>)

get_fen(b) ==
    LET ranks == Flatten([k \in 1..8 |->
                     FenRank(b, 8 - k, 0, 0, <<>>) \o (IF k < 8 THEN <<"/">> ELSE <<>>)])
        cast == (IF b.castling[WHITE][0] THEN <<"K">> ELSE <<>>) \o
                (IF b.castling[WHITE][1] THEN <<"Q">> ELSE <<>>) \o
                (IF b.castling[BLACK][0] THEN <<"k">> ELSE <<>>) \o
                (IF b.castling[BLACK][1] THEN <<"q">> ELSE <<>>)
        ep == IF b.en_passant_square = -1 THEN <<"-">>
              ELSE <<CharOf(97 + file_of(b.en_passant_square)),
                     CharOf(49 + rank_of(b.en_passant_square))>>
    IN ranks \o <<" ">> \o
       <<(IF b.side_to_move = WHITE THEN "w" ELSE "b")>> \o <<" ">> \o
       (IF cast = <<>> THEN <<"-">> ELSE cast) \o <<" ">> \o
       ep \o <<" ">> \o to_string(b.halfmove_clock) \o <<" ">> \o
       to_string(b.fullmove_number)

(***************************************************************************)
(* Bitboards::move_to_uci and Search::apply_uci_move.                       *)
(***************************************************************************)
move_to_uci(move_value) ==
    LET from == move_from(move_value)
        to == move_to(move_value)
    IN <<CharOf(97 + file_of(from)), CharOf(49 + rank_of(from)),
         CharOf(97 + file_of(to)), CharOf(49 + rank_of(to))>> \o
       (IF move_flags(move_value) = MOVE_PROMOTION
        THEN <<(<<"n", "b", "r", "q">>)[move_promotion(move_value) + 1]>>
        ELSE <<>>)

\* apply_uci_move up to its search for the string: the board parsed from the
\* FEN and legal_moves_with_uci, the legal moves paired with their strings.
ParseAndList(fen) ==
    Bind(set_from_fen(fen).board, LAMBDA board :
    Bind(generate_candidates(board), LAMBDA legal_moves :
        [fen |-> fen, board |-> board,
         legal_moves_with_uci |->
             [i \in 1..Len(legal_moves) |->
                 [move |-> legal_moves[i], uci |-> move_to_uci(legal_moves[i])]]]))

\* The rest of apply_uci_move: the move it matched (0 when none) and the
\* string it returns.
MatchAndApply(parsed, uci_move) ==
    LET list == parsed.legal_moves_with_uci
        board == parsed.board
        hits == {i \in 1..Len(list) : list[i].uci = uci_move}
        matched_move == IF hits = {} THEN 0 ELSE list[MinOf(hits)].move
    IN IF matched_move = 0 THEN [matched_move |-> 0, fen |-> parsed.fen]
       ELSE LET nb == make_move(board, matched_move)
                new_board == [nb EXCEPT !.fullmove_number =
                    board.fullmove_number +
                        (IF board.side_to_move = BLACK THEN 1 ELSE 0)]
            IN [matched_move |-> matched_move, fen |-> get_fen(new_board)]

ApplyUci(fen, uci_move) == MatchAndApply(ParseAndList(fen), uci_move)

apply_uci_move(fen, uci_move) == ApplyUci(fen, uci_move).fen

(***************************************************************************)
(* UCI::cmd_position.  A string is the sequence of its characters.          *)
(***************************************************************************)
S(str) == [i \in 1..Len(str) |-> SubSeq(str, i, i)]

STARTPOS_FEN == S("rnbqkbnr/pppppppp/8/8/8/8/PPPPPPPP/RNBQKBNR w KQkq - 0 1")

\* The tokens of a position command up to its "moves" keyword: the FEN that
\* cmd_position assembles from them.
PositionFen(tokens) ==
    IF Len(tokens) > 0 /\ tokens[1] = S("startpos") THEN STARTPOS_FEN
    ELSE IF Len(tokens) > 0 /\ tokens[1] = S("fen")
    THEN LET defaults == <<S("rnbqkbnr/pppppppp/8/8/8/8/PPPPPPPP/RNBQKBNR"),
                           S("w"), S("KQkq"), S("-"), S("0"), S("1")>>
             fen_parts == [k \in 1..6 |->
                 IF k + 1 <= Len(tokens) THEN tokens[k + 1] ELSE defaults[k]]
         IN fen_parts[1] \o <<" ">> \o fen_parts[2] \o <<" ">> \o fen_parts[3] \o
            <<" ">> \o fen_parts[4] \o <<" ">> \o fen_parts[5] \o <<" ">> \o
            fen_parts[6]
    ELSE STARTPOS_FEN

(***************************************************************************)
(* The search (namespace Search).  The statics of the namespace travel     *)
(* through the search as one record s:                                      *)
(*   stop_search, search_depth, max_time_ms   as in the source,             *)
(*   clock              the reading of get_elapsed_ms: every reading takes  *)
(*                      one tick, the unit in which time limits are given,  *)
(*   transposition_table, killer_moves, history_scores, position_history,   *)
(*   fired              history: should_stop has answered true since        *)
(*                      search() began,                                     *)
(*   drawn              history: the drawn positions the search has stood   *)
(*                      at (see Scored),                                    *)
(*   tt_use             history: the places of the search that have put a   *)
(*                      move or score of the table to use that belongs to   *)
(*                      no legal move, and those that have dropped an       *)
(*                      entry for its move (see TableUse), and what         *)
(*                      alpha_beta has done with the scores of its hits     *)
(*                      (see ScoreUse),                                     *)
(*   stack              history: whether position_history has been at every *)
(*                      return of alpha_beta what it was at the entry, and  *)
(*                      the greatest length it has had,                     *)
(*   mates              history: the nodes of alpha_beta without a legal     *)
(*                      move (see NoLegalMoves),                            *)
(*   nulls              history: the null moves alpha_beta has played (see  *)
(*                      NullMovePlayed),                                    *)
(*   cutoffs            history: the beta cutoffs of the move loop of       *)
(*                      alpha_beta (see BetaCutoff).                        *)
(***************************************************************************)
MATE_SCORE == 30000
MATE_BOUND == MATE_SCORE - 1000
max_depth == 20
panic_time_ms == 5000
BIG_DELTA == 975
INT_MAX == 2147483647

\* TTEntry.flag
TT_ALPHA == 1
TT_BETA == 2
TT_EXACT == 3

get_piece_value(piece) ==
    CASE piece = PAWN -> 100
      [] piece = KNIGHT -> 320
      [] piece = BISHOP -> 330
      [] piece = ROOK -> 500
      [] piece = QUEEN -> 900
      [] OTHER -> 0

\* Evaluation::count_material and Evaluation::evaluate.  Of the terms of the
\* evaluation the model keeps the material balance and the tempo bonus; the
\* positional terms (activity, pawn structure, space, king safety,
\* development) are left out.
count_material(board, color) ==
    100 * Cardinality(board.pieces[PAWN] \cap board.colors[color]) +
    320 * Cardinality(board.pieces[KNIGHT] \cap board.colors[color]) +
    330 * Cardinality(board.pieces[BISHOP] \cap board.colors[color]) +
    500 * Cardinality(board.pieces[ROOK] \cap board.colors[color]) +
    900 * Cardinality(board.pieces[QUEEN] \cap board.colors[color])

Evaluation_evaluate(board) ==
    count_material(board, WHITE) - count_material(board, BLACK) +
    (IF board.side_to_move = WHITE THEN 10 ELSE -10)

\* What Board::compute_hash reads of a board: the placement, the side to
\* move, the castling rights and the en-passant square.
HashedPart(board) ==
    [pieces |-> board.pieces, colors |-> board.colors,
     side_to_move |-> board.side_to_move, castling |-> board.castling,
     en_passant_square |-> board.en_passant_square]

\* What compute_hash reads of a board with the white king and a white pawn
\* on the given squares, the black king on h8 and the given side to move.
KingAndPawnPart(king, pawn, side) ==
    [pieces |-> <<{pawn}, {}, {}, {}, {}, {king, 63}>>,
     colors |-> (WHITE :> {king, pawn} @@ BLACK :> {63}),
     side_to_move |-> side, castling |-> EmptyBoard.castling,
     en_passant_square |-> -1]

\* Two boards taken to have one 64-bit key, and two boards taken to have
\* different keys with the same low 20 bits: 7k/8/8/8/8/8/P7/K7 with White
\* to move, that position after a2a3, and that position after Ka1-b1.
CollisionRootPart == KingAndPawnPart(0, 8, WHITE)
SameKeyPart == KingAndPawnPart(0, 16, BLACK)
SameSlotPart == KingAndPawnPart(1, 8, BLACK)

\* Board::compute_hash.  The key is the XOR of pseudo-random words chosen by
\* what HashedPart keeps; the model takes that part as the key itself, so
\* two boards have one key exactly when they agree on it, but for the two
\* boards taken to collide.
compute_hash(board) ==
    IF HashedPart(board) = SameKeyPart THEN CollisionRootPart
    ELSE HashedPart(board)

\* tt_index: the low 20 bits of the key.  Every key has its own slot, but
\* for the two keys taken to share one.
tt_index(hash) ==
    IF hash = SameSlotPart THEN CollisionRootPart ELSE hash

\* An entry as initialize() leaves it.  Its hash is 0, the key of the board
\* without pieces, White to move.
EmptyEntry ==
    [hash |-> compute_hash(EmptyBoard), depth |-> 0, score |-> 0, move |-> 0,
     flag |-> 0]

\* transposition_table[tt_index(hash)]
tt_entry(tt, hash) ==
    IF tt_index(hash) \in DOMAIN tt THEN tt[tt_index(hash)] ELSE EmptyEntry

tt_store(tt, hash, depth, score, move, flag) ==
    [h \in DOMAIN tt \cup {tt_index(hash)} |->
        IF h = tt_index(hash)
        THEN [hash |-> hash, depth |-> depth, score |-> score, move |-> move,
              flag |-> flag]
        ELSE tt[h]]

\* A probe that answers from the slot whatever key is stored there.
tt_probe_any_key(tt, hash, depth) ==
    LET e == tt_entry(tt, hash)
    IN IF e.depth >= depth /\ e.flag # 0
       THEN [hit |-> TRUE, score |-> e.score, move |-> e.move]
       ELSE [hit |-> FALSE, score |-> 0, move |-> 0]

\* tt_probe: whether it answers true, and the score and move it hands out
\* (the caller's move stays 0 on a miss).
tt_probe(tt, hash, depth) ==
    LET e == tt_entry(tt, hash)
    IN IF e.hash = hash /\ e.depth >= depth /\ e.flag # 0
       THEN [hit |-> TRUE, score |-> e.score, move |-> e.move]
       ELSE [hit |-> FALSE, score |-> 0, move |-> 0]

get_elapsed_ms(s) == s.clock + 1

\* should_stop: the answer and the statics after the call.
should_stop(s) ==
    IF s.stop_search THEN [stop |-> TRUE, s |-> [s EXCEPT !.fired = TRUE]]
    ELSE LET elapsed == get_elapsed_ms(s)
             stop == \/ elapsed > s.max_time_ms
                     \/ elapsed > panic_time_ms /\ s.search_depth > 3
         IN [stop |-> stop,
             s |-> [s EXCEPT !.clock = elapsed, !.fired = @ \/ stop]]

is_fifty_move_draw(board) == board.halfmove_clock >= 100

is_repetition_draw(board, s) ==
    Cardinality({i \in 1..Len(s.position_history) :
                    s.position_history[i] = compute_hash(board)}) >= 2

\* Bitboards::color_of: the colour of a square.
color_of(sq) == (file_of(sq) + rank_of(sq)) % 2

is_insufficient_material(board) ==
    LET n(pt, c) == Cardinality(board.pieces[pt] \cap board.colors[c])
        white_minor == n(KNIGHT, WHITE) + n(BISHOP, WHITE)
        black_minor == n(KNIGHT, BLACK) + n(BISHOP, BLACK)
    IN IF n(PAWN, WHITE) + n(PAWN, BLACK) + n(ROOK, WHITE) + n(ROOK, BLACK) +
          n(QUEEN, WHITE) + n(QUEEN, BLACK) > 0 THEN FALSE
       ELSE IF white_minor = 0 /\ black_minor = 0 THEN TRUE
       ELSE IF (white_minor = 1 /\ black_minor = 0) \/
               (white_minor = 0 /\ black_minor = 1) THEN TRUE
       ELSE IF n(BISHOP, WHITE) = 1 /\ n(BISHOP, BLACK) = 1 /\
               n(KNIGHT, WHITE) = 0 /\ n(KNIGHT, BLACK) = 0
       THEN color_of(MinOf(board.pieces[BISHOP] \cap board.colors[WHITE])) =
            color_of(MinOf(board.pieces[BISHOP] \cap board.colors[BLACK]))
       ELSE FALSE

evaluate_position(board, color, s) ==
    IF is_fifty_move_draw(board) THEN 0
    ELSE IF is_repetition_draw(board, s) THEN 0
    ELSE IF is_insufficient_material(board) THEN 0
    ELSE IF color = WHITE THEN Evaluation_evaluate(board)
         ELSE -Evaluation_evaluate(board)

\* History of the running search, kept in the field drawn of the statics:
\* the kinds of node ("alpha_beta", "quiescence") that stood at a position
\* drawn by the fifty-move rule or by repetition, and the kinds of which such
\* a node returned a score that is neither 0 nor the bound of its window
\* [alpha, beta] nearest to 0.  Scored records the return of a node.
Scored(kind, board, alpha, beta, score, s) ==
    IF is_fifty_move_draw(board) \/ is_repetition_draw(board, s)
    THEN [s EXCEPT !.drawn.seen = @ \cup {kind},
                   !.drawn.nonzero =
                       IF score = 0 \/ score = MaxOf({alpha, MinOf({beta, 0})})
                       THEN @ ELSE @ \cup {kind}]
    ELSE s

\* see: the material a capture or a promotion wins at once.
see(board, move) ==
    LET attacker == piece_at(board, move_from(move))
        victim == piece_at(board, move_to(move))
    IN IF victim = NO_PIECE
       THEN IF is_promotion(move)
            THEN (<<320, 330, 500, 900>>)[move_promotion(move) + 1] - 100
            ELSE 0
       ELSE get_piece_value(victim) - get_piece_value(attacker)

mirror_square(sq) == (7 - rank_of(sq)) * 8 + file_of(sq)

\* std::sort with a comparison, as the library sorts the short ranges of the
\* model (at most 16 elements, by insertion): elements that compare
\* equivalent keep their order.
SortBy(seq, Before(_, _)) ==
    Bind(Eager(seq), LAMBDA sq :
    Bind(Eager([i \in 1..Len(sq) |->
                   Cardinality({j \in 1..Len(sq) :
                       \/ Before(sq[j], sq[i])
                       \/ ~Before(sq[i], sq[j]) /\ j < i}) + 1]),
         LAMBDA rank :
         Eager([k \in 1..Len(sq) |->
                   sq[CHOOSE i \in 1..Len(sq) : rank[i] = k]])))

history_score(s, from, to) ==
    IF <<from, to>> \in DOMAIN s.history_scores
    THEN s.history_scores[<<from, to>>] ELSE 0

score_move_for_order(board, move, tt_move, depth, s) ==
    LET from == move_from(move)
        to == move_to(move)
        piece == piece_at(board, from)
        captured == piece_at(board, to)
        flags == move_flags(move)
        stm == board.side_to_move
        target == IF stm = WHITE THEN to ELSE mirror_square(to)
        center_dist == Abs(file_of(to) - 3) + Abs(rank_of(to) - 3)
        history == history_score(s, from, to)
        centred == history +
                   (IF center_dist <= 3 THEN (3 - center_dist) * 10 ELSE 0)
        developed == centred +
            (IF (piece = KNIGHT \/ piece = BISHOP) /\
                ((stm = WHITE /\ rank_of(from) = 0) \/
                 (stm = BLACK /\ rank_of(from) = 7))
             THEN 30 ELSE 0) +
            (IF piece = KNIGHT /\
                ((stm = WHITE /\ to \in {16, 18, 21, 23}) \/
                 (stm = BLACK /\ to \in {40, 42, 45, 47}))
             THEN 20 ELSE 0)
    IN IF tt_move # 0 /\ move = tt_move THEN 1000000
       ELSE IF board.fullmove_number <= 3 /\ piece = PAWN /\
               ((stm = WHITE /\ target \in {28, 27}) \/
                (stm = BLACK /\ target \in {36, 35})) THEN 200000
       ELSE IF flags = MOVE_CASTLE
            THEN (IF board.fullmove_number <= 10 THEN 150000 ELSE 100000)
       ELSE IF captured # NO_PIECE
            THEN 90000 + get_piece_value(captured) * 10 - get_piece_value(piece)
       ELSE IF is_promotion(move) THEN 95000
       ELSE IF depth >= 0 /\ depth < 64 /\ move = s.killer_moves[depth][1]
            THEN 85000
       ELSE IF depth >= 0 /\ depth < 64 /\ move = s.killer_moves[depth][2]
            THEN 84000
       ELSE IF board.fullmove_number <= 20
            THEN (IF piece = KING THEN -100000 ELSE developed)
       ELSE history

order_moves(moves, board, tt_move, depth, s) ==
    Bind(SortBy([i \in 1..Len(moves) |->
                    [first |-> score_move_for_order(board, moves[i], tt_move,
                                                    depth, s),
                     second |-> moves[i]]],
                LAMBDA a, b : a.first > b.first), LAMBDA scored_moves :
         Eager([i \in 1..Len(scored_moves) |-> scored_moves[i].second]))

\* The moves quiescence_search looks at, in the order it looks at them.
QuiescenceMoves(board, in_check) ==
    LET tactical(m) ==
            /\ piece_at(board, move_to(m)) # NO_PIECE \/ is_promotion(m)
            /\ see(board, m) >= -100
        mvv(m) == get_piece_value(piece_at(board, move_to(m))) * 10 -
                  get_piece_value(piece_at(board, move_from(m))) +
                  see(board, m)
    IN SortBy(SelectSeq(generate_candidates(board),
                        LAMBDA m : in_check \/ tactical(m)),
              LAMBDA a, b :
                  IF is_promotion(a) /\ ~is_promotion(b) THEN TRUE
                  ELSE IF ~is_promotion(a) /\ is_promotion(b) THEN FALSE
                  ELSE mvv(a) > mvv(b))

update_history(s, move, depth, bonus) ==
    LET key == <<move_from(move), move_to(move)>>
        raised == [k \in DOMAIN s.history_scores \cup {key} |->
                      IF k = key THEN history_score(s, key[1], key[2]) + bonus
                      ELSE s.history_scores[k]]
    IN [s EXCEPT !.history_scores =
           IF raised[key] > 10000
           THEN [k \in DOMAIN raised |->
                    IF raised[k] \div 2 > 0 THEN raised[k] \div 2 ELSE 0]
           ELSE raised]

RECURSIVE quiescence_search(_, _, _, _, _)
RECURSIVE QuiescenceLoop(_, _, _, _, _, _)
RECURSIVE alpha_beta(_, _, _, _, _, _, _)
RECURSIVE AlphaBetaLoop(_, _, _, _, _, _, _)

\* The results are records [score, s]: the returned value and the statics
\* after the call.  A move loop carries its locals and the statics in a
\* record acc, whose field exit says how the loop was left: "none" while it
\* runs, "stop" after should_stop answered true, "cutoff" after a beta
\* cutoff.

\* quiescence_search up to its move loop: whether it returns there (and
\* what), or else alpha and the moves of the loop.
QuiescenceEntry(board, alpha, beta, color, s) ==
    Bind(should_stop(s), LAMBDA p :
    Bind([in_check |-> is_in_check(board, color),
          stand_pat |-> evaluate_position(board, color, p.s)], LAMBDA e :
    LET alpha1 == IF ~e.in_check /\ e.stand_pat > alpha THEN e.stand_pat
                  ELSE alpha
        Return(score) ==
            [done |-> TRUE, score |-> score,
             s |-> Scored("quiescence", board, alpha, beta, score, p.s)]
    IN IF p.stop THEN Return(e.stand_pat)
       ELSE IF ~e.in_check /\ e.stand_pat >= beta THEN Return(beta)
       ELSE IF ~e.in_check /\ e.stand_pat < alpha1 - BIG_DELTA
       THEN Return(alpha1)
       ELSE Bind(QuiescenceMoves(board, e.in_check), LAMBDA moves :
            IF moves = <<>> THEN Return(e.stand_pat)
            ELSE [done |-> FALSE, moves |-> moves, alpha |-> alpha1,
                  s |-> p.s])))

\* A turn that pushes on position_history before it asks should_stop.
StepEntryPushFirst(board, move, s, push) ==
    Bind(should_stop(IF push
                     THEN [s EXCEPT !.position_history =
                              Append(@, compute_hash(board))]
                     ELSE s), LAMBDA p :
    IF p.stop THEN [stop |-> TRUE, s |-> p.s]
    ELSE [stop |-> FALSE, new_board |-> make_move(board, move), s |-> p.s])

\* One turn of a move loop up to the recursive call: should_stop, make_move
\* and the push on position_history (alpha_beta only).
StepEntry(board, move, s, push) ==
    Bind(should_stop(s), LAMBDA p :
    IF p.stop THEN [stop |-> TRUE, s |-> p.s]
    ELSE [stop |-> FALSE, new_board |-> make_move(board, move),
          s |-> IF push
                THEN [p.s EXCEPT !.position_history =
                         Append(@, compute_hash(board)),
                         !.stack.max = MaxOf({@, Len(p.s.position_history) + 1})]
                ELSE p.s])

\* One turn of the move loop of quiescence_search.
QuiescenceStep(board, move, beta, color, acc) ==
    Bind(StepEntry(board, move, acc.s, FALSE), LAMBDA e :
    IF e.stop THEN [acc EXCEPT !.exit = "stop", !.s = e.s]
    ELSE Bind(quiescence_search(e.new_board, -beta, -acc.alpha, 1 - color,
                                e.s), LAMBDA r :
         IF -r.score > acc.alpha
         THEN [acc EXCEPT
                  !.exit = IF -r.score >= beta THEN "cutoff" ELSE "none",
                  !.alpha = -r.score, !.s = r.s]
         ELSE [acc EXCEPT !.s = r.s]))

QuiescenceLoop(board, moves, i, beta, color, acc) ==
    IF i > Len(moves) \/ acc.exit # "none"
    THEN IF acc.exit = "stop" THEN [score |-> acc.alpha, s |-> acc.s]
         ELSE Bind(IF acc.exit = "cutoff" THEN beta ELSE acc.alpha,
                   LAMBDA score :
                   [score |-> score,
                    s |-> Scored("quiescence", board, acc.alpha0, beta, score,
                                 acc.s)])
    ELSE Bind(QuiescenceStep(board, moves[i], beta, color, acc), LAMBDA a :
              QuiescenceLoop(board, moves, i + 1, beta, color, a))

quiescence_search(board, alpha, beta, color, s) ==
    Bind(QuiescenceEntry(board, alpha, beta, color, s), LAMBDA e :
    IF e.done THEN [score |-> e.score, s |-> e.s]
    ELSE QuiescenceLoop(board, e.moves, 1, beta, color,
                        [exit |-> "none", alpha |-> e.alpha, alpha0 |-> alpha,
                         s |-> e.s]))

\* The killer moves and the history after a beta cutoff.
CutoffTables(board, move, depth, s) ==
    LET quiet == piece_at(board, move_to(move)) = NO_PIECE /\
                 depth >= 0 /\ depth < 64
        s1 == IF quiet /\ s.killer_moves[depth][1] # move
              THEN [s EXCEPT !.killer_moves[depth] =
                       <<move, s.killer_moves[depth][1]>>]
              ELSE s
    IN update_history(s1, move, depth, depth * depth)

\* The bookkeeping of a beta cutoff: killer moves and history.  The field
\* cutoffs keeps the history of the cutoffs: the move, whether it takes a
\* piece, the depth, the killer slots of the depth and the history entry of
\* the move before and after, and whether either table has changed.
BetaCutoff(board, move, depth, s) ==
    Bind(CutoffTables(board, move, depth, s), LAMBDA s2 :
        [s2 EXCEPT !.cutoffs = @ \cup
            {[move |-> move, depth |-> depth,
              capture |-> \/ piece_at(board, move_to(move)) # NO_PIECE
                          \/ move_flags(move) = MOVE_EN_PASSANT,
              killers_before |-> s.killer_moves[depth],
              killers_after |-> s2.killer_moves[depth],
              history_before |-> history_score(s, move_from(move),
                                               move_to(move)),
              history_after |-> history_score(s2, move_from(move),
                                              move_to(move)),
              changed |-> \/ s2.killer_moves # s.killer_moves
                          \/ s2.history_scores # s.history_scores]}])

\* What a turn of the move loop of alpha_beta does with the score of the
\* move, s2 being the statics after the pop from position_history.
AlphaBetaUpdate(board, move, depth, beta, acc, score, s2) ==
    IF score > acc.best_score
    THEN IF score > acc.alpha
         THEN IF score >= beta
              THEN [exit |-> "cutoff", alpha |-> score, best_score |-> score,
                    best_move |-> move, flag |-> TT_BETA,
                    s |-> BetaCutoff(board, move, depth, s2)]
              ELSE [exit |-> "none", alpha |-> score, best_score |-> score,
                    best_move |-> move, flag |-> TT_EXACT, s |-> s2]
         ELSE [acc EXCEPT !.best_score = score, !.best_move = move, !.s = s2]
    ELSE [acc EXCEPT !.s = s2]

\* One turn of the move loop of alpha_beta.
AlphaBetaStep(board, move, depth, beta, color, acc) ==
    Bind(StepEntry(board, move, acc.s, TRUE), LAMBDA e :
    IF e.stop THEN [acc EXCEPT !.exit = "stop", !.s = e.s]
    ELSE Bind(alpha_beta(e.new_board, depth - 1, -beta, -acc.alpha,
                         1 - color, TRUE, e.s), LAMBDA r :
         AlphaBetaUpdate(board, move, depth, beta, acc, -r.score,
             [r.s EXCEPT !.position_history = SubSeq(@, 1, Len(@) - 1)])))

\* The move loop of alpha_beta from the i-th move on, and the end of
\* alpha_beta: the node's entry goes into the table unless should_stop
\* answered true in the loop.
AlphaBetaLoop(board, moves, i, depth, beta, color, acc) ==
    IF acc.exit = "stop" THEN [score |-> 0, s |-> acc.s]
    ELSE IF i > Len(moves) \/ acc.exit = "cutoff"
    THEN [score |-> acc.best_score,
          s |-> [acc.s EXCEPT !.transposition_table =
                    tt_store(@, compute_hash(board), depth, acc.best_score,
                             acc.best_move, acc.flag)]]
    ELSE Bind(AlphaBetaStep(board, moves[i], depth, beta, color, acc),
              LAMBDA a : AlphaBetaLoop(board, moves, i + 1, depth, beta,
                                       color, a))

\* A validation of the table's move that lets every move pass.
IsLegalMoveUnchecked(board, move) == TRUE

\* Whether the table's move is a legal move of the board.
IsLegalMove(board, move) ==
    move \in SeqToSet(generate_moves(board)) /\ is_legal(board, move)

\* The legal move set of a board.
LegalMoveSet(board) == {m \in SeqToSet(generate_moves(board)) : is_legal(board, m)}

\* The history of the uses of the table after one more: at place the move
\* (0: none) or the score of an entry was put to use on the board, or the
\* entry was dropped.
TableUse(place, board, move, dropped, s) ==
    [s EXCEPT !.tt_use.illegal =
                  IF move # 0 /\ move \notin LegalMoveSet(board)
                  THEN @ \cup {place} ELSE @,
              !.tt_use.dropped = IF dropped THEN @ \cup {place} ELSE @]

\* The history of the uses of the table after alpha_beta has had a hit of
\* sufficient depth at depth > 0 on an entry with the given flag and score:
\* the flag together with what alpha_beta did, return beta ("beta"),
\* return alpha ("alpha") or go on to search the node ("search").
ScoreUse(flag, score, alpha, beta, s) ==
    [s EXCEPT !.tt_use.score =
        @ \cup {[flag |-> flag,
                 did |-> IF score >= beta THEN "beta"
                         ELSE IF score <= alpha THEN "alpha" ELSE "search",
                 returned_stored |-> (score >= beta /\ score = beta) \/
                                     (score < beta /\ score <= alpha /\
                                      score = alpha)]}]

\* The material alpha_beta counts before it tries a null move.
our_material(board, color) ==
    LET on(pt) == {sq \in Squares : color_at(board, sq) = color /\
                                    piece_at(board, sq) = pt}
    IN 100 * Cardinality(on(PAWN)) + 320 * Cardinality(on(KNIGHT)) +
       330 * Cardinality(on(BISHOP)) + 500 * Cardinality(on(ROOK)) +
       900 * Cardinality(on(QUEEN))

\* alpha_beta up to the null-move pruning: whether it returns there (and
\* what), or else the move of the table and whether the side is in check.
AlphaBetaEntry(board, depth, alpha, beta, color, s) ==
    Bind(should_stop(s), LAMBDA p :
    LET mate_alpha == MaxOf({alpha, -MATE_SCORE + (max_depth - depth)})
        mate_beta == MinOf({beta, MATE_SCORE - (max_depth - depth)})
        Return(score) ==
            [done |-> TRUE, score |-> score,
             s |-> Scored("alpha_beta", board, alpha, beta, score, p.s)]
    IN IF p.stop THEN Return(0)
       ELSE IF mate_alpha >= mate_beta THEN Return(mate_alpha)
       ELSE IF \/ is_fifty_move_draw(board)
               \/ is_repetition_draw(board, p.s)
               \/ is_insufficient_material(board) THEN Return(0)
       ELSE Bind(tt_probe(p.s.transposition_table, compute_hash(board),
                          depth), LAMBDA probe :
            Bind(~(probe.hit /\ probe.move # 0) \/
                 IsLegalMove(board, probe.move), LAMBDA kept :
            Bind(IF probe.hit /\ kept /\ depth > 0
                 THEN ScoreUse(tt_entry(p.s.transposition_table,
                                        compute_hash(board)).flag,
                               probe.score, alpha, beta,
                               TableUse("alpha_beta", board, probe.move,
                                        FALSE, p.s))
                 ELSE TableUse("alpha_beta", board,
                               IF kept THEN probe.move ELSE 0, ~kept, p.s),
                 LAMBDA s1 :
            IF probe.hit /\ kept /\ depth > 0 /\ probe.score >= beta
            THEN [done |-> TRUE, score |-> beta,
                  s |-> Scored("alpha_beta", board, alpha, beta, beta, s1)]
            ELSE IF probe.hit /\ kept /\ depth > 0 /\ probe.score <= alpha
            THEN [done |-> TRUE, score |-> alpha,
                  s |-> Scored("alpha_beta", board, alpha, beta, alpha, s1)]
            ELSE [done |-> FALSE, s |-> s1,
                  tt_move |-> IF kept THEN probe.move ELSE 0,
                  in_check |-> IF depth = 0 THEN FALSE
                               ELSE is_in_check(board, color)]))))

\* alpha_beta between the null-move pruning and the move loop: whether it
\* returns there (and what), or else the depth after the check extension
\* and the ordered moves.
AlphaBetaMoves(board, depth, in_check, tt_move, s) ==
    Bind(generate_candidates(board), LAMBDA moves :
    IF moves = <<>>
    THEN [done |-> TRUE,
          score |-> IF in_check THEN -MATE_SCORE + (max_depth - depth) ELSE 0]
    ELSE Bind(IF in_check /\ depth < max_depth THEN depth + 1 ELSE depth,
              LAMBDA depth1 :
              [done |-> FALSE, depth |-> depth1,
               moves |-> order_moves(moves, board, tt_move, depth1, s)]))

\* The history of the nodes without a legal move after one more: the moves
\* made from the root to the node (the hashes on position_history), whether
\* the side to move is in check, and the score returned.
NoLegalMoves(in_check, score, s) ==
    [s EXCEPT !.mates = @ \cup {[ply |-> Len(s.position_history),
                                 in_check |-> in_check, score |-> score]}]

\* alpha_beta from the generation of the candidate moves on.
AlphaBetaSearch(board, depth, alpha, beta, color, in_check, tt_move, s) ==
    Bind(AlphaBetaMoves(board, depth, in_check, tt_move, s), LAMBDA m :
    IF m.done THEN [score |-> m.score, s |-> NoLegalMoves(in_check, m.score, s)]
    ELSE AlphaBetaLoop(board, m.moves, 1, m.depth, beta, color,
             [exit |-> "none", alpha |-> alpha, best_score |-> -INT_MAX,
              best_move |-> m.moves[1], flag |-> TT_ALPHA, s |-> s]))

\* The null move of alpha_beta: the board, the depth and the window of the
\* search below it.
NullMove(board, depth, beta, color) ==
    [board |-> [board EXCEPT !.side_to_move = 1 - color,
                             !.en_passant_square = -1],
     depth |-> depth - 1 - 2, alpha |-> -beta, beta |-> -beta + 1]

\* The history of the null moves after one more: the node (what
\* compute_hash reads of its board, its depth, its beta, the side, whether
\* it may play a null move and whether the side is in check) and the search
\* below the null move.
NullMovePlayed(board, depth, beta, color, allow_null, in_check, null, s) ==
    [s EXCEPT !.nulls = @ \cup
        {[node |-> HashedPart(board), depth |-> depth, beta |-> beta,
          color |-> color, allow_null |-> allow_null, in_check |-> in_check,
          child |-> [null EXCEPT !.board = HashedPart(@)]]}]

\* alpha_beta from its entry to its return.
AlphaBetaNode(board, depth, alpha, beta, color, allow_null, s) ==
    Bind(AlphaBetaEntry(board, depth, alpha, beta, color, s), LAMBDA e :
    IF e.done THEN [score |-> e.score, s |-> e.s]
    ELSE IF depth = 0 THEN quiescence_search(board, alpha, beta, color, e.s)
    ELSE IF allow_null /\ ~e.in_check /\ depth >= 3 /\
            our_material(board, color) > 400
    THEN Bind(NullMove(board, depth, beta, color), LAMBDA null :
         Bind(alpha_beta(null.board, null.depth, null.alpha, null.beta,
                         1 - color, FALSE,
                         NullMovePlayed(board, depth, beta, color, allow_null,
                                        e.in_check, null, e.s)), LAMBDA r :
         IF -r.score >= beta THEN [score |-> beta, s |-> r.s]
         ELSE AlphaBetaSearch(board, depth, alpha, beta, color, e.in_check,
                              e.tt_move, r.s)))
    ELSE AlphaBetaSearch(board, depth, alpha, beta, color, e.in_check,
                         e.tt_move, e.s))

\* alpha_beta, with the history of its returns: whether position_history
\* was at every return what it was at the entry.
alpha_beta(board, depth, alpha, beta, color, allow_null, s) ==
    Bind(AlphaBetaNode(board, depth, alpha, beta, color, allow_null, s),
         LAMBDA r :
         [score |-> r.score,
          s |-> [r.s EXCEPT !.stack.balanced =
                    @ /\ r.s.position_history = s.position_history]])

(***************************************************************************)
(* Human selection at the root (namespace HumanSelection).                  *)
(***************************************************************************)
is_edge_move_opening(move, board) ==
    LET from == move_from(move)
        piece == piece_at(board, from)
        from_file == from % 8
        from_rank == from \div 8
    IN IF piece % 8 # 2 /\ piece % 8 # 1 THEN FALSE
       ELSE IF piece % 8 = 2 /\ from_rank \in {2, 5} /\
               from_file \in {0, 1, 6, 7} THEN TRUE
       ELSE piece % 8 = 1 /\ from_rank \in {1, 6} /\ from_file \in {0, 7}

\* The board collect_candidates evaluates for a move: the piece taken off its
\* square and put on the target with colour piece >> 3, then whatever
\* stands on the target removed when the move is a capture.
CandidateBoard(board, move) ==
    LET from == move_from(move)
        to == move_to(move)
        piece == piece_at(board, from)
        moved == add_piece(remove_piece(board, from), to, piece % 8,
                           piece \div 8)
    IN IF to # from /\ piece_at(board, to) # 0 THEN remove_piece(moved, to)
       ELSE moved

\* Guardrails that stop after the hard floor and the opening penalties.
GuardrailsFloorOnly(board, candidates, candidate_margin_cp, candidate_moves_max, hard_floor_cp, opening_sanity, topk_override, current_ply) ==
    LET Penalised(c) ==
            IF is_edge_move_opening(c.move, board)
            THEN [c EXCEPT !.score = @ - opening_sanity * 5] ELSE c
        floored == SelectSeq(candidates,
                       LAMBDA c : c.score >= candidates[1].score - hard_floor_cp)
    IN IF current_ply < 12 /\ opening_sanity > 0
       THEN SortBy([i \in 1..Len(floored) |-> Penalised(floored[i])],
                   LAMBDA a, b : a.score > b.score)
       ELSE floored

\* collect_candidates from the hard floor on: candidates are the moves
\* that passed the check test, best first.
Guardrails(board, candidates, candidate_margin_cp, candidate_moves_max, hard_floor_cp, opening_sanity, topk_override, current_ply) ==
    LET ByScore(a, b) == a.score > b.score
        best_score == candidates[1].score
        Penalised(c) ==
            IF is_edge_move_opening(c.move, board)
            THEN [c EXCEPT !.score = @ - opening_sanity * 5] ELSE c
    IN Bind(SelectSeq(candidates,
                LAMBDA c : c.score >= best_score - hard_floor_cp),
            LAMBDA floored :
       Bind(IF current_ply < 12 /\ opening_sanity > 0
            THEN SortBy([i \in 1..Len(floored) |-> Penalised(floored[i])],
                        ByScore)
            ELSE floored, LAMBDA sane :
       Bind(SelectSeq(IF topk_override > 0 /\ topk_override < Len(sane)
                      THEN SubSeq(sane, 1, topk_override) ELSE sane,
                LAMBDA c : c.score >= best_score - candidate_margin_cp),
            LAMBDA filtered :
            IF candidate_moves_max >= 0 /\ Len(filtered) > candidate_moves_max
            THEN SubSeq(filtered, 1, candidate_moves_max)
            ELSE filtered)))

\* collect_candidates: the candidates [move, score], best first.
collect_candidates(board, candidate_margin_cp, candidate_moves_max, hard_floor_cp, opening_sanity, topk_override, current_ply) ==
    Bind(SelectSeq(generate_moves(board), LAMBDA m :
             /\ piece_at(board, move_from(m)) # 0
             /\ ~is_in_check(CandidateBoard(board, m), board.side_to_move)),
         LAMBDA moves :
    IF moves = <<>> THEN <<>>
    ELSE Bind(SortBy([i \in 1..Len(moves) |->
                         [move |-> moves[i],
                          score |-> Evaluation_evaluate(
                                        CandidateBoard(board, moves[i]))]],
                     LAMBDA a, b : a.score > b.score), LAMBDA candidates :
              Guardrails(board, candidates, candidate_margin_cp,
                         candidate_moves_max, hard_floor_cp, opening_sanity,
                         topk_override, current_ply)))

RECURSIVE Sum(_)
Sum(ws) == IF ws = <<>> THEN 0 ELSE Head(ws) + Sum(Tail(ws))

\* seeded_random: the generator's constants a, c and m.
seeded_random_a == 1103515245
seeded_random_c == 12345
seeded_random_m == 2147483647

\* (x + y) % m and (x * y) % m for x, y < m, in 32-bit arithmetic.
AddMod(x, y) ==
    IF x >= seeded_random_m - y THEN x - (seeded_random_m - y) ELSE x + y

RECURSIVE MulMod(_, _)
MulMod(x, y) ==
    IF y = 0 THEN 0
    ELSE Bind(MulMod(x, y \div 2), LAMBDA h :
              AddMod(AddMod(h, h), IF y % 2 = 1 THEN x ELSE 0))

\* A seeded_random that never takes its seed: the static state runs on from
\* call to call.
seeded_random_unseeded(seed, state) ==
    AddMod(MulMod(seeded_random_a, state % seeded_random_m), seeded_random_c)

\* seeded_random(seed) with the static state at state: the static state
\* after the call.  The call returns that state divided by m; the seeds of
\* the model are not negative.
seeded_random(seed, state) ==
    Bind(IF seed # 0 THEN seed ELSE state, LAMBDA s0 :
         AddMod(MulMod(seeded_random_a, s0 % seeded_random_m),
                seeded_random_c))

\* The value seeded_random returns with its state at state, in thousandths
\* (rounded down).
RandomMilli(state) == state \div 2147484

\* std::exp(num / den) for num / den <= 1/2, in ten-thousandths: the power
\* series for the fraction, and the powers of 1/e for the whole part of a
\* negative argument.  Weights below one ten-thousandth count as 0.
RECURSIVE ExpSeries(_, _, _, _)
ExpSeries(num, den, i, term) ==
    IF i > 8 \/ term = 0 THEN 0
    ELSE term + ExpSeries(num, den, i + 1, (term * num) \div (den * i))

std_exp(num, den) ==
    IF num >= 0 THEN ExpSeries(num, den, 1, 10000)
    ELSE IF (-num) \div den >= 10 THEN 0
    ELSE ((<<10000, 3679, 1353, 498, 183, 67, 25, 9, 3, 1>>)[(-num) \div den + 1]
              * ExpSeries(-((-num) % den), den, 1, 10000)) \div 10000

\* The weight pick_human_move gives a candidate, in ten-thousandths; noise
\* is the static state after the candidate's call of seeded_random.
CandidateWeight(c, best_score, p, noise) ==
    LET base == std_exp(c.score - best_score, p.human_temperature + 1)
        noisy == IF p.human_noise_cp > 0
                 THEN (base * std_exp((RandomMilli(noise) - 500) *
                                          p.human_noise_cp, 50000)) \div 10000
                 ELSE base
        risky == IF p.risk_appetite > 100 /\ c.score < best_score
                 THEN (noisy * (1000 + 3 * (p.risk_appetite - 100))) \div 1000
                 ELSE IF p.risk_appetite < 100 /\ c.score < best_score
                 THEN (noisy * (100 + p.risk_appetite)) \div 200
                 ELSE noisy
    IN IF p.simplicity_bias > 100 /\ c.score < best_score - 50
       THEN (risky * (1000 - 3 * (p.simplicity_bias - 100))) \div 1000
       ELSE risky

\* The first loop of pick_human_move from the i-th candidate on: the
\* weights, and the static state of seeded_random after the loop.
RECURSIVE HumanWeights(_, _, _, _, _)
HumanWeights(candidates, i, best_score, p, state) ==
    IF i > Len(candidates) THEN [weights |-> <<>>, state |-> state]
    ELSE Bind(IF p.human_noise_cp > 0
              THEN seeded_random(p.random_seed + candidates[i].move, state)
              ELSE state, LAMBDA noise :
         Bind(HumanWeights(candidates, i + 1, best_score, p, noise),
              LAMBDA rest :
              [weights |-> <<CandidateWeight(candidates[i], best_score, p,
                                             noise)>> \o rest.weights,
               state |-> rest.state]))

\* pick_human_move with the parameters p and the static state of
\* seeded_random at state: the move it returns and the static state after
\* the call.  The draw r is compared in thousandths.
pick_human_move(candidates, best_score, p, state) ==
    IF candidates = <<>> THEN [move |-> 0, state |-> state]
    ELSE IF Len(candidates) = 1
    THEN [move |-> candidates[1].move, state |-> state]
    ELSE Bind(HumanWeights(candidates, 1, best_score, p, state), LAMBDA w :
         Bind(seeded_random(p.random_seed + 12345, w.state), LAMBDA drawn :
         LET Cumulative(i) == Sum(SubSeq(w.weights, 1, i))
             hits == {i \in 1..Len(candidates) :
                         RandomMilli(drawn) * Cumulative(Len(candidates))
                             <= Cumulative(i) * 1000}
         IN [move |-> IF hits = {} THEN candidates[1].move
                      ELSE candidates[MinOf(hits)].move,
             state |-> drawn]))

(***************************************************************************)
(* Search::search, one turn of its iterative-deepening loop at a time.      *)
(***************************************************************************)
\* The first legal move in generation order, or the move kept when there
\* is none.
FirstLegalOr(board, kept) ==
    Bind(generate_candidates(board), LAMBDA legal :
        IF legal = <<>> THEN kept ELSE legal[1])

\* result.best_move after an iteration: the move of the root's entry when
\* it is legal, else the first legal move; and 0 when the outcome is not a
\* legal move.
RootBestMove(board, best_move, tt) ==
    Bind(tt_entry(tt, compute_hash(board)), LAMBDA entry :
    Bind(IF entry.hash = compute_hash(board) /\ entry.move # 0
         THEN IF IsLegalMove(board, entry.move) THEN entry.move
              ELSE FirstLegalOr(board, best_move)
         ELSE IF best_move = 0 THEN FirstLegalOr(board, best_move)
         ELSE best_move, LAMBDA m :
         IF m # 0 /\ ~IsLegalMove(board, m) THEN 0 ELSE m))

\* The history of the uses of the table after search() has read the
\* root's entry.
RootTableUse(board, s) ==
    Bind(tt_entry(s.transposition_table, compute_hash(board)), LAMBDA entry :
    IF entry.hash = compute_hash(board) /\ entry.move # 0
    THEN Bind(IsLegalMove(board, entry.move), LAMBDA found :
              TableUse("search", board, IF found THEN entry.move ELSE 0,
                       ~found, s))
    ELSE s)

\* The loop of extract_pv from its i-th turn on: the moves of the line and
\* the statics after it.
RECURSIVE ExtractPv(_, _, _, _, _, _)
ExtractPv(board, pv_depth, i, seen_positions, pv, s) ==
    Bind(compute_hash(board), LAMBDA hash :
    IF ~(i < pv_depth /\ i < 10) \/ hash \in SeqToSet(seen_positions)
    THEN [pv |-> pv, s |-> s]
    ELSE Bind(tt_entry(s.transposition_table, hash), LAMBDA entry :
         IF entry.hash # hash \/ entry.move = 0
         THEN [pv |-> pv, s |-> s]
         ELSE IF ~IsLegalMove(board, entry.move)
         THEN [pv |-> pv, s |-> TableUse("extract_pv", board, 0, TRUE, s)]
         ELSE Bind(make_move(board, entry.move), LAMBDA new_board :
              Bind(TableUse("extract_pv", board, entry.move, FALSE, s),
                   LAMBDA s1 :
                   ExtractPv(new_board, pv_depth, i + 1,
                             Append(seen_positions, hash),
                             Append(pv, move_to_uci(entry.move)), s1)))))

extract_pv(board, pv_depth, s) ==
    Bind(s, LAMBDA s0 : ExtractPv(board, pv_depth, 0, <<>>, <<>>, s0))

\* One turn of the loop of search(): g holds the locals of search (board,
\* max_search_depth, depth, result, left: the loop has been left by break)
\* and the history of the run (completed: the result and the root's entry
\* as the last iteration in which should_stop never answered true left
\* them; aborted: the iteration in which it answered true inside
\* alpha_beta, 0 when none).
SearchIteration(g, s) ==
    Bind(should_stop(s), LAMBDA top :
    IF top.stop THEN [g |-> [g EXCEPT !.left = TRUE], s |-> top.s]
    ELSE Bind(alpha_beta(g.board, g.depth, -MATE_SCORE, MATE_SCORE,
                         g.board.side_to_move, TRUE,
                         [top.s EXCEPT !.search_depth = g.depth]), LAMBDA r :
         Bind([score |-> r.score, depth |-> g.depth,
               best_move |-> RootBestMove(g.board, g.result.best_move,
                                          r.s.transposition_table)],
              LAMBDA result :
         Bind(extract_pv(g.board, g.depth,
                  [RootTableUse(g.board, r.s) EXCEPT
                      !.clock = get_elapsed_ms(r.s)]), LAMBDA line :
         Bind(IF g.depth < 3 /\ g.board.fullmove_number <= 5
              THEN [stop |-> FALSE, s |-> line.s] ELSE should_stop(line.s),
              LAMBDA bottom :
              [g |-> [g EXCEPT
                        !.result = result,
                        !.pv = IF line.pv = <<>> /\ result.best_move # 0
                               THEN <<move_to_uci(result.best_move)>>
                               ELSE line.pv,
                        !.depth = IF bottom.stop THEN @ ELSE @ + 1,
                        !.left = bottom.stop,
                        !.completed =
                            IF r.s.fired THEN @
                            ELSE [result |-> result,
                                  entry |-> tt_entry(r.s.transposition_table,
                                                compute_hash(g.board))],
                        !.aborted = IF r.s.fired THEN g.depth ELSE @],
               s |-> bottom.s])))))

\* search() after its loop: human selection and the final safety check,
\* human_move being what pick_human_move returns when it is called.
SearchEpilogue(g, s, params, human_move) ==
    LET board == g.board
        best_move == g.result.best_move
        candidates == collect_candidates(board, params.candidate_margin_cp,
                          params.candidate_moves_max,
                          params.human_hard_floor_cp,
                          params.human_opening_sanity,
                          params.human_topk_override, board.halfmove_clock)
    IN Bind(IF /\ params.human_select /\ best_move # 0
               /\ ~s.stop_search
               /\ human_move # 0
               /\ Len(candidates) > 1
               /\ IsLegalMove(board, human_move)
            THEN human_move ELSE best_move, LAMBDA m :
           IF m # 0 /\ ~IsLegalMove(board, m) THEN FirstLegalOr(board, m)
           ELSE m)

\* The calls of collect_candidates and pick_human_move in the epilogue of
\* search(), with the static state of seeded_random at state: the
\* candidates, whether pick_human_move is called (there are two candidates
\* or more), the parameters, the state before, the move picked and the
\* state after.
HumanCall(board, params, state) ==
    Bind(collect_candidates(board, params.candidate_margin_cp,
             params.candidate_moves_max, params.human_hard_floor_cp,
             params.human_opening_sanity, params.human_topk_override,
             board.halfmove_clock), LAMBDA candidates :
    Bind(pick_human_move(candidates,
             IF candidates = <<>> THEN 0 ELSE candidates[1].score,
             params, state), LAMBDA pick :
         [called |-> Len(candidates) > 1, board |-> board,
          candidates |-> candidates, params |-> params, before |-> state,
          move |-> pick.move, state |-> pick.state]))

\* What the epilogue of search() gets from human selection: the call, or
\* move 0 and the static state as it was when there is no call.
HumanMoves(g, s, params, state) ==
    IF params.human_select /\ g.result.best_move # 0 /\ ~s.stop_search
    THEN {HumanCall(g.board, params, state)}
    ELSE {[called |-> FALSE, move |-> 0, state |-> state]}

(***************************************************************************)
(* UCI::cmd_go.                                                             *)
(***************************************************************************)
\* The value of the last "name value" pair among the tokens, or the default.
GoParameter(tokens, name, default) ==
    LET at == {i \in 1..Len(tokens) - 1 : tokens[i] = name}
    IN IF at = {} THEN default ELSE stoi(tokens[MaxOf(at) + 1])

\* Whether cmd_go derives the time limit from the clock of the side to move.
GoInfinite(tokens) == \E i \in 1..Len(tokens) : tokens[i] = S("infinite")
GoMyTime(tokens, board) ==
    IF board.side_to_move = 0 THEN GoParameter(tokens, S("wtime"), -1)
    ELSE GoParameter(tokens, S("btime"), -1)
GoMyInc(tokens, board) ==
    IF board.side_to_move = 0 THEN GoParameter(tokens, S("winc"), 0)
    ELSE GoParameter(tokens, S("binc"), 0)

\* The time cmd_go allots by the phase of the game, before its bounds.
PhaseMoveTime(my_time, my_inc, fullmove_number) ==
    IF fullmove_number <= 3
    THEN MinOf({MaxOf({my_time \div 25, 2000}), 15000})
    ELSE IF fullmove_number <= 10
    THEN MaxOf({my_time \div 30 + my_inc * 2, 1500})
    ELSE IF fullmove_number <= 25
    THEN my_time \div 40 + (my_inc * 3) \div 2
    ELSE my_time \div 50 + my_inc

\* The bounds cmd_go puts on the allotted time, in its order: an eighth of
\* the clock above, a fortieth of the clock but at least 100 below, then 50
\* below and 30000 above.
BoundMoveTime(movetime, my_time) ==
    LET max_time == my_time \div 8
        m1 == IF movetime > max_time THEN max_time ELSE movetime
        min_time == MaxOf({my_time \div 40, 100})
        m2 == IF m1 < min_time THEN min_time ELSE m1
        m3 == IF m2 < 50 THEN 50 ELSE m2
    IN IF m3 > 30000 THEN 30000 ELSE m3

\* The time limit cmd_go passes to search().
GoMoveTime(tokens, board) ==
    LET movetime == GoParameter(tokens, S("movetime"), -1)
        my_time == GoMyTime(tokens, board)
    IN IF movetime = -1 /\ ~GoInfinite(tokens)
       THEN IF my_time > 0
            THEN BoundMoveTime(PhaseMoveTime(my_time, GoMyInc(tokens, board),
                                             board.fullmove_number), my_time)
            ELSE 1000
       ELSE IF movetime = -1 THEN 10000
       ELSE movetime

\* The validation of cmd_go: whether the string of the move search()
\* returned passes it.
MoveIsValid(best_move_uci, all_possible_moves) ==
    LET best_from == (Ascii(best_move_uci[2]) - 49) * 8 +
                     (Ascii(best_move_uci[1]) - 97)
        best_to == (Ascii(best_move_uci[4]) - 49) * 8 +
                   (Ascii(best_move_uci[3]) - 97)
        hits == {i \in 1..Len(all_possible_moves) :
                    /\ move_from(all_possible_moves[i]) = best_from
                    /\ move_to(all_possible_moves[i]) = best_to}
        move == all_possible_moves[MinOf(hits)]
        promo_char == best_move_uci[5]
        promo_type == CASE promo_char = "n" -> 0
                        [] promo_char = "b" -> 1
                        [] promo_char = "r" -> 2
                        [] OTHER -> 3
    IN IF Len(best_move_uci) < 4 \/ hits = {} THEN FALSE
       ELSE IF Len(best_move_uci) = 5
       THEN move_flags(move) = MOVE_PROMOTION /\
            move_promotion(move) = promo_type
       ELSE IF move_flags(move) = MOVE_CASTLE
       THEN (best_from = 4 /\ best_to \in {6, 2}) \/
            (best_from = 60 /\ best_to \in {62, 58})
       ELSE TRUE

\* The scan of the fallback of cmd_go: the first move that passes its test
\* on the board edited by hand, as a string, or the string kept.
FallbackScan(verify_board, all_possible_moves, best_move_uci) ==
    LET Passes(move) ==
            LET from == move_from(move)
                to == move_to(move)
                piece == piece_at(verify_board, from)
                color == color_at(verify_board, from)
                cleared == IF piece_at(verify_board, to) # NO_PIECE
                           THEN remove_piece(verify_board, to)
                           ELSE verify_board
                test_board == add_piece(remove_piece(cleared, from), to,
                                        piece, color)
                king_sq == find_king(test_board, color)
            IN /\ piece # NO_PIECE
               /\ color = verify_board.side_to_move
               /\ king_sq # -1
               /\ ~is_square_attacked(test_board, king_sq, 1 - color)
        passing == {i \in 1..Len(all_possible_moves) :
                       Passes(all_possible_moves[i])}
    IN IF passing = {} THEN best_move_uci
       ELSE move_to_uci(all_possible_moves[MinOf(passing)])

\* The string cmd_go prints after "bestmove" for the move search() returned.
GoBestMove(fen, best_move) ==
    Bind(set_from_fen(fen).board, LAMBDA verify_board :
    Bind(generate_moves(verify_board), LAMBDA all_possible_moves :
    Bind(move_to_uci(best_move), LAMBDA best_move_uci :
    LET scanned == FallbackScan(verify_board, all_possible_moves,
                                best_move_uci)
    IN IF MoveIsValid(best_move_uci, all_possible_moves) THEN best_move_uci
       ELSE IF all_possible_moves # <<>>
       THEN move_to_uci(all_possible_moves[1])
       ELSE scanned)))

(***************************************************************************)
(* The state of the engine process.                                         *)
(***************************************************************************)
VARIABLES
    current_position,   \* UCI::current_position, a FEN string
    uci_pc,             \* where UCI::loop stands: "idle" between commands,
                        \* "position" inside the move loop of cmd_position,
                        \* "search" inside the loop of Search::search,
                        \* "searched" in cmd_go after search() has returned
    ntokens,            \* move tokens the running cmd_position has consumed
    last_call,          \* history: the arguments of the latest apply_uci_move
                        \* call of the running command and the move it matched
    statics,            \* the statics of namespace Search
    params,             \* Evaluation::get_params()
    go,                 \* the locals of the running or latest cmd_go and
                        \* search(), and the history of that search
    bestmove,           \* the string of the latest "bestmove" line
    pending_stop,       \* "stop" lines on stdin that UCI::loop has not read
    human,              \* the static state of HumanSelection::seeded_random,
                        \* and the history of the calls of pick_human_move:
                        \* their number and the latest of them
    gui,                \* the GUI: whether it has sent a position since the
                        \* start of the game, the go commands it has sent,
                        \* and the head and the moves of its latest position
                        \* line
    perft,              \* the perft mode of main(): the locals of
                        \* Search::perft and the lines it has printed
    tt_call,            \* history of the calls of tt_store and tt_probe
                        \* made on the table directly: their number, the
                        \* latest store of every slot and the latest probe
    movegen             \* the calls of the two move generators made
                        \* directly: the board, the generator called and
                        \* the moves it returned

uciVars == <<current_position, uci_pc, ntokens, last_call>>
goVars == <<statics, params, go, bestmove, pending_stop, human, perft,
           tt_call, movegen>>
vars == <<current_position, uci_pc, ntokens, last_call, statics, params, go,
          bestmove, pending_stop, human, gui, perft, tt_call, movegen>>

\* Bounds of the environment driving the position command.
MaxMoveTokens == 6

\* Bounds of the environment driving the go command: the go commands of a
\* run, the largest time limit (in ticks) and the "stop" lines in flight.
MaxGo == 1
MaxMoveTime == 36
MaxPendingStops == 1

\* Bound of the environment driving human selection alone: the selections
\* of a run.
MaxPicks == 3

NoCall == [fen |-> <<>>, uci |-> <<>>, matched_move |-> 0]

NoResult == [best_move |-> 0, score |-> 0, depth |-> 0]

NoGo == [fen |-> <<>>, board |-> EmptyBoard, max_search_depth |-> 0,
         depth |-> 0, left |-> FALSE, result |-> NoResult,
         completed |-> [result |-> NoResult, entry |-> EmptyEntry],
         aborted |-> 0, stop_request |-> -1, tokens |-> <<>>, pv |-> <<>>]

\* What the GUI sends after "position", up to the "moves" keyword.
PositionHeads ==
    { <<S("startpos")>>,
      <<S("fen"), S("4k3/4p3/8/3P4/8/8/8/4K2R"), S("b"), S("K"), S("-"), S("0"), S("1")>>,
      <<S("fen"), S("8/8/8/8/8/8/kp5P/R3K3"), S("b"), S("Q"), S("-")>>,
      <<S("fen"), S("4k3/8/8/8/8/8/4P3/4K"), S("w"), S("-"), S("-"), S("0"), S("1")>>,
      <<S("fen"), S("4k3/8/8/8/8/8/4P3/4K3"), S("x"), S("-"), S("-"), S("0"), S("1")>> }

\* Move tokens the GUI may send: moves of the lines played from the heads
\* above, moves that are not legal there, and strings that are no move.
UciTokens ==
    { S("e2e4"), S("e7e5"), S("d5e6"), S("e1g1"), S("e8e7"),
      S("b2a1b"), S("h2h3"), S("a1e5"), S("h3h4"), S("a2a1"), S("e1c1"),
      S("e1e2"), S("a2a3"), S("b2a1"), S("zzzz") }

\* The positions the GUI sets up before "go": White in check with one legal
\* move, Black with one legal move, Black stalemated, and White to move
\* with the two kings on neighbouring squares.
GoHeads ==
    { <<S("fen"), S("8/8/8/8/8/k7/1p5P/K7"), S("w"), S("-"), S("-"), S("0"), S("1")>>,
      <<S("fen"), S("7k/5K2/8/8/8/p7/P7/8"), S("b"), S("-"), S("-"), S("0"), S("30")>>,
      <<S("fen"), S("k7/P7/1K6/8/8/8/8/8"), S("b"), S("-"), S("-"), S("0"), S("40")>>,
      <<S("fen"), S("8/8/8/8/8/8/4k2P/4K3"), S("w"), S("-"), S("-"), S("0"), S("30")>> }

\* Positions the GUI sets up before a "go" with a depth limit: Black with
\* one legal move (followed by moves, see GoLines), White two plies short
\* of the fifty-move rule with one legal move, a quiet check that skewers
\* the black king and rook, White with a pawn move that checkmates, and
\* White with five pawns on the a-file and no other piece beside the king.
DepthHeads ==
    { <<S("fen"), S("k7/2K5/8/8/8/7p/7P/8"), S("b"), S("-"), S("-"), S("0"), S("30")>>,
      <<S("fen"), S("7k/5K1p/6P1/8/8/8/8/8"), S("w"), S("-"), S("-"), S("0"), S("50")>>,
      <<S("fen"), S("1r6/2k5/8/8/8/5p2/5P2/6BK"), S("w"), S("-"), S("-"), S("98"), S("60")>>,
      <<S("fen"), S("8/k7/P7/P7/P7/P7/P7/K7"), S("w"), S("-"), S("-"), S("0"), S("50")>> }

\* The moves the GUI sends after a head: none, except after the first of
\* DepthHeads, where the two kings step away and back.
LineMoves(head) ==
    IF head[2] = S("k7/2K5/8/8/8/7p/7P/8")
    THEN <<S("a8a7"), S("c7c8"), S("a7a8"), S("c8c7")>>
    ELSE <<>>

\* The position lines the GUI sends before "go"; it sends none after its last
\* "go".
GoLines ==
    { [head |-> h, moves |-> LineMoves(h)] : h \in GoHeads \cup DepthHeads }

\* What the GUI sends after "go": a time limit, or a depth limit with the
\* largest time limit.
GoCommands ==
    { <<S("movetime"), to_string(t)>> : t \in 0..MaxMoveTime } \cup
    { <<S("depth"), to_string(d), S("movetime"), to_string(MaxMoveTime)>> :
          d \in 0..3 }

\* The "go" lines the GUI sends after a position line with the given head.
GoCommandsFor(head) ==
    IF head \in GoHeads THEN GoCommands
    ELSE { tokens \in GoCommands : tokens[1] = S("depth") }

\* No call of tt_store or tt_probe has been made on the table directly.
NoTableCall ==
    [calls |-> 0, stored |-> <<>>,
     probe |-> [called |-> FALSE, hash |-> 0, depth |-> 0, before |-> <<>>,
                after |-> <<>>,
                answer |-> [hit |-> FALSE, score |-> 0, move |-> 0]]]

\* No board has been set up for a direct call of a move generator.
NoMoveGen == [pc |-> "off", board |-> EmptyBoard, moves |-> <<>>]

\* The perft mode before it is entered.
NoPerft == [pc |-> "off", fen |-> <<>>, board |-> EmptyBoard, depth |-> 0,
            moves |-> <<>>, i |-> 0, lines |-> <<>>, total_nodes |-> 0]

GameInit ==
    /\ current_position = STARTPOS_FEN
    /\ uci_pc = "idle"
    /\ ntokens = 0
    /\ last_call = NoCall
    /\ statics = [stop_search |-> FALSE, search_depth |-> 10,
                  max_time_ms |-> 30000, clock |-> 0,
                  transposition_table |-> <<>>,
                  killer_moves |-> [d \in 0..63 |-> <<0, 0>>],
                  history_scores |-> <<>>, position_history |-> <<>>,
                  fired |-> FALSE, drawn |-> [seen |-> {}, nonzero |-> {}],
                  tt_use |-> [illegal |-> {}, dropped |-> {}, score |-> {}],
                  stack |-> [balanced |-> TRUE, max |-> 0],
                  mates |-> {}, nulls |-> {}, cutoffs |-> {}]
    /\ params = [human_select |-> TRUE, candidate_margin_cp |-> 200,
                 candidate_moves_max |-> 10, human_hard_floor_cp |-> 200,
                 human_opening_sanity |-> 120, human_topk_override |-> 0,
                 human_temperature |-> 100, human_noise_cp |-> 0,
                 risk_appetite |-> 100, simplicity_bias |-> 100,
                 random_seed |-> 0]
    /\ human = [state |-> 1, calls |-> 0,
                last |-> [called |-> FALSE, move |-> 0, state |-> 1]]
    /\ go = NoGo
    /\ bestmove = <<>>
    /\ pending_stop = 0
    /\ gui = [positioned |-> FALSE, go_sent |-> 0, head |-> <<>>,
              line |-> <<>>]
    /\ perft = NoPerft
    /\ tt_call = NoTableCall
    /\ movegen = NoMoveGen

\* UCI::loop reads the lines of stdin in order: it takes up a command other
\* than "stop" when it is idle and no "stop" line waits before it.
LoopReads == uci_pc = "idle" /\ pending_stop = 0

\* cmd_position up to its move loop: current_position = fen.
cmd_position_begin(tokens, moves) ==
    /\ LoopReads
    /\ current_position' = PositionFen(tokens)
    /\ uci_pc' = "position"
    /\ ntokens' = 0
    /\ last_call' = NoCall
    /\ gui' = [gui EXCEPT !.positioned = TRUE, !.head = tokens,
                          !.line = moves]
    /\ UNCHANGED goVars

\* One turn of the move loop of cmd_position: apply_uci_move on the current
\* position and the token.  parsed is ParseAndList(current_position), which
\* does not depend on the token and is computed once for all tokens.
cmd_position_move(token, parsed) ==
    /\ uci_pc = "position"
    /\ ntokens < MaxMoveTokens
    /\ LET r == MatchAndApply(parsed, token)
       IN /\ current_position' = r.fen
          /\ last_call' = [fen |-> current_position, uci |-> token,
                           matched_move |-> r.matched_move]
    /\ ntokens' = ntokens + 1
    /\ UNCHANGED <<uci_pc, gui>>
    /\ UNCHANGED goVars

\* The move loop of cmd_position runs out of tokens.
cmd_position_end ==
    /\ uci_pc = "position"
    /\ uci_pc' = "idle"
    /\ UNCHANGED <<current_position, ntokens, last_call, gui>>
    /\ UNCHANGED goVars

\* "ucinewgame" in UCI::loop.
cmd_ucinewgame ==
    /\ LoopReads
    /\ current_position' = STARTPOS_FEN
    /\ ntokens' = 0
    /\ last_call' = NoCall
    /\ gui' = [gui EXCEPT !.positioned = FALSE]
    /\ UNCHANGED uci_pc
    /\ UNCHANGED goVars

GameNext ==
    \/ \E tokens \in PositionHeads : cmd_position_begin(tokens, <<>>)
    \/ \E parsed \in {ParseAndList(current_position)} :
           \E token \in UciTokens : cmd_position_move(token, parsed)
    \/ cmd_position_end
    \/ cmd_ucinewgame

Spec == GameInit /\ [][GameNext]_vars

\* Evaluation::set_param for the integer options of human selection.
set_param(p, name, value) ==
    CASE name = S("CandidateMarginCp") ->
             [p EXCEPT !.candidate_margin_cp = stoi(value)]
      [] name = S("CandidateMovesMax") ->
             [p EXCEPT !.candidate_moves_max = stoi(value)]
      [] name = S("HumanTemperature") ->
             [p EXCEPT !.human_temperature = stoi(value)]
      [] name = S("HumanNoiseCp") ->
             [p EXCEPT !.human_noise_cp = stoi(value)]
      [] name = S("RandomSeed") -> [p EXCEPT !.random_seed = stoi(value)]
      [] name = S("RiskAppetite") -> [p EXCEPT !.risk_appetite = stoi(value)]
      [] name = S("SimplicityBias") ->
             [p EXCEPT !.simplicity_bias = stoi(value)]
      [] name = S("HumanHardFloorCp") ->
             [p EXCEPT !.human_hard_floor_cp = stoi(value)]
      [] name = S("HumanOpeningSanity") ->
             [p EXCEPT !.human_opening_sanity = stoi(value)]
      [] name = S("HumanTopKOverride") ->
             [p EXCEPT !.human_topk_override = stoi(value)]
      [] OTHER -> p

\* "setoption name HumanSelect value ..." (Evaluation::set_param).
cmd_setoption_HumanSelect(value) ==
    /\ LoopReads
    /\ params' = [params EXCEPT !.human_select = (value = S("true"))]
    /\ UNCHANGED <<uciVars, statics, go, bestmove, pending_stop, human, gui, perft, tt_call, movegen>>

\* "setoption name ... value ..." for the options of human selection that
\* Evaluation::set_param reads with std::stoi.
cmd_setoption(name, value) ==
    /\ LoopReads
    /\ params' = set_param(params, name, value)
    /\ UNCHANGED <<uciVars, statics, go, bestmove, pending_stop, human, gui, perft, tt_call, movegen>>

\* cmd_go up to the loop of search(): the tokens are parsed, search() is
\* entered and sets its result, the time limit, the clock and the stop flag.
cmd_go(tokens) ==
    /\ LoopReads
    /\ gui.positioned
    /\ gui.go_sent < MaxGo
    /\ gui' = [gui EXCEPT !.go_sent = @ + 1]
    /\ uci_pc' = "search"
    /\ go' = [NoGo EXCEPT
                !.fen = current_position,
                !.board = set_from_fen(current_position).board,
                !.max_search_depth = GoParameter(tokens, S("depth"), 20),
                !.depth = 1,
                !.tokens = tokens,
                !.result = [best_move |-> 0, score |-> 0,
                            depth |-> GoParameter(tokens, S("depth"), 20)]]
    /\ statics' = [statics EXCEPT !.position_history = <<>>,
                                  !.max_time_ms =
                                      GoMoveTime(tokens,
                                          set_from_fen(current_position).board),
                                  !.clock = 0,
                                  !.stop_search = FALSE,
                                  !.fired = FALSE,
                                  !.drawn = [seen |-> {}, nonzero |-> {}],
                                  !.tt_use = [illegal |-> {}, dropped |-> {},
                                              score |-> {}],
                                  !.stack = [balanced |-> TRUE, max |-> 0],
                                  !.mates = {}, !.nulls = {},
                                  !.cutoffs = {}]
    /\ UNCHANGED <<current_position, ntokens, last_call, params, bestmove,
                   pending_stop, human, perft, tt_call, movegen>>

\* One turn of the iterative-deepening loop of search().
search_iteration ==
    /\ uci_pc = "search"
    /\ ~go.left
    /\ go.depth <= go.max_search_depth
    /\ \E out \in {SearchIteration(go, statics)} :
           /\ go' = out.g
           /\ statics' = out.s
    /\ UNCHANGED <<uciVars, params, bestmove, pending_stop, human, gui, perft, tt_call, movegen>>

\* search() from the end of its loop to its return.
search_return(pick) ==
    /\ go' = [go EXCEPT !.result.best_move =
                 SearchEpilogue(go, statics, params, pick.move)]
    /\ human' = IF pick.called
                THEN [state |-> pick.state, calls |-> human.calls + 1,
                      last |-> pick]
                ELSE human
    /\ statics' = [statics EXCEPT !.clock = get_elapsed_ms(statics)]
    /\ uci_pc' = "searched"
    /\ UNCHANGED <<current_position, ntokens, last_call, params, bestmove,
                   pending_stop, gui, perft, tt_call, movegen>>

\* cmd_go after search(): the move is validated and "bestmove" is printed.
cmd_go_bestmove ==
    /\ uci_pc = "searched"
    /\ bestmove' = GoBestMove(current_position, go.result.best_move)
    /\ uci_pc' = "idle"
    /\ UNCHANGED <<current_position, ntokens, last_call, statics, params, go,
                   pending_stop, human, gui, perft, tt_call, movegen>>

\* The GUI writes "stop" to the engine's stdin.  go.stop_request keeps the
\* clock at which the first such line arrived while search() was running,
\* -1 when there was none.
gui_stop ==
    /\ pending_stop < MaxPendingStops
    /\ pending_stop' = pending_stop + 1
    /\ go' = [go EXCEPT !.stop_request =
                 IF uci_pc = "search" /\ @ = -1 THEN statics.clock ELSE @]
    /\ UNCHANGED <<uciVars, statics, params, bestmove, human, gui, perft, tt_call, movegen>>

\* UCI::loop reads a "stop" line: cmd_stop, Search::stop.
cmd_stop ==
    /\ uci_pc = "idle"
    /\ pending_stop > 0
    /\ pending_stop' = pending_stop - 1
    /\ statics' = [statics EXCEPT !.stop_search = TRUE]
    /\ UNCHANGED <<uciVars, params, go, bestmove, human, gui, perft, tt_call, movegen>>

GoNext ==
    \/ /\ gui.go_sent < MaxGo
       /\ \E l \in GoLines : cmd_position_begin(l.head, l.moves)
    \/ /\ ntokens < Len(gui.line)
       /\ \E parsed \in {ParseAndList(current_position)} :
              cmd_position_move(gui.line[ntokens + 1], parsed)
    \/ ntokens = Len(gui.line) /\ cmd_position_end
    \/ \E value \in {S("true"), S("false")} : cmd_setoption_HumanSelect(value)
    \/ /\ gui.head \in DepthHeads
       /\ cmd_setoption(S("HumanTemperature"), S("0"))
    \/ /\ gui.head \in DepthHeads
       /\ cmd_setoption(S("CandidateMovesMax"), S("1"))
    \/ \E tokens \in GoCommandsFor(gui.head) : cmd_go(tokens)
    \/ search_iteration
    \/ /\ uci_pc = "search"
       /\ go.left \/ go.depth > go.max_search_depth
       /\ \E pick \in HumanMoves(go, statics, params, human.state) :
              search_return(pick)
    \/ cmd_go_bestmove
    \/ gui_stop
    \/ cmd_stop

SpecGo == GameInit /\ [][GoNext]_vars

\* The positions in which the clock-derived time limit is studied: either
\* side to move in each phase cmd_go tells apart by the fullmove number.
ClockHeads ==
    { <<S("fen"), S("4k3/8/8/8/8/8/4P3/4K3"), side, S("-"), S("-"), S("0"), fullmove>> :
          side \in {S("w"), S("b")},
          fullmove \in {S("1"), S("5"), S("20"), S("40")} }

\* The remaining clocks and the increments (ms) the GUI reports.
ClockTimes == {100, 400, 800, 60000, 300000, 2000000}
ClockIncrements == {0, 2000}

\* The "go" lines of a timed game, limited to depth 1, and one without
\* clocks.
ClockCommands ==
    { <<S("depth"), S("1"), S("wtime"), to_string(w), S("btime"), to_string(b),
        S("winc"), to_string(i), S("binc"), to_string(i)>> :
          w \in ClockTimes, b \in ClockTimes, i \in ClockIncrements } \cup
    { <<S("depth"), S("1")>> }

ClockNext ==
    \/ /\ gui.go_sent < MaxGo
       /\ \E head \in ClockHeads : cmd_position_begin(head, <<>>)
    \/ cmd_position_end
    \/ \E tokens \in ClockCommands : cmd_go(tokens)
    \/ search_iteration
    \/ /\ uci_pc = "search"
       /\ go.left \/ go.depth > go.max_search_depth
       /\ \E pick \in HumanMoves(go, statics, params, human.state) :
              search_return(pick)
    \/ cmd_go_bestmove

SpecClock == GameInit /\ [][ClockNext]_vars

\* The position line and the "go" lines with which the uses of the
\* transposition table are studied: the root of the boards taken to
\* collide, searched to depth 2 under every time limit and under none.
TableHead ==
    <<S("fen"), S("7k/8/8/8/8/8/P7/K7"), S("w"), S("-"), S("-"), S("0"), S("1")>>
TableCommands ==
    { <<S("depth"), S("2"), S("movetime"), to_string(t)>> : t \in 0..MaxMoveTime }
        \cup { <<S("depth"), S("2")>> }

TableNext ==
    \/ /\ gui.go_sent < MaxGo
       /\ cmd_position_begin(TableHead, <<>>)
    \/ cmd_position_end
    \/ \E tokens \in TableCommands : cmd_go(tokens)
    \/ search_iteration
    \/ /\ uci_pc = "search"
       /\ go.left \/ go.depth > go.max_search_depth
       /\ \E pick \in HumanMoves(go, statics, params, human.state) :
              search_return(pick)
    \/ cmd_go_bestmove

SpecTT == GameInit /\ [][TableNext]_vars

\* The positions in which human selection is studied alone: White with a
\* pawn move that checkmates, Black with two pawn moves and five king
\* moves, and White with an edge pawn, a centre pawn and the king to move,
\* at the first move of the game and at the fortieth.
HumanHeads ==
    { <<S("fen"), S("7k/5K1p/6P1/8/8/8/8/8"), S("w"), S("-"), S("-"), S("0"), S("50")>>,
      <<S("fen"), S("4k3/7p/8/8/8/8/8/4K3"), S("b"), S("-"), S("-"), S("20"), S("40")>>,
      <<S("fen"), S("4k3/8/8/8/8/8/P3P3/4K3"), S("w"), S("-"), S("-"), S("0"), S("1")>>,
      <<S("fen"), S("4k3/8/8/8/8/8/P3P3/4K3"), S("w"), S("-"), S("-"), S("0"), S("40")>> }

\* The options the GUI sets before the selections.
HumanOptions ==
    { <<S("RandomSeed"), S("7")>>, <<S("HumanTemperature"), S("0")>>,
      <<S("HumanNoiseCp"), S("20")>>, <<S("HumanTopKOverride"), S("2")>>,
      <<S("CandidateMovesMax"), S("3")>>, <<S("CandidateMarginCp"), S("50")>> }

\* Human selection at the root of current_position, as the epilogue of
\* search() runs it when HumanSelect is on, the search has a best move and
\* no stop was requested.
select_human_move ==
    /\ LoopReads
    /\ gui.positioned
    /\ human.calls < MaxPicks
    /\ \E pick \in {HumanCall(set_from_fen(current_position).board, params,
                               human.state)} :
           human' = [state |-> pick.state, calls |-> human.calls + 1,
                     last |-> pick]
    /\ UNCHANGED <<uciVars, statics, params, go, bestmove, pending_stop, gui, perft, tt_call, movegen>>

\* The GUI sets options and a position, then the selections follow.
HumanNext ==
    \/ /\ human.calls = 0
       /\ \E o \in HumanOptions : cmd_setoption(o[1], o[2])
    \/ /\ human.calls = 0
       /\ \E tokens \in HumanHeads : cmd_position_begin(tokens, <<>>)
    \/ cmd_position_end
    \/ select_human_move

SpecHuman == GameInit /\ [][HumanNext]_vars

(***************************************************************************)
(* tt_store and tt_probe called on the table directly.                      *)
(***************************************************************************)
\* The calls of a run, and the arguments they are made with: three keys two
\* of which share a slot, and the key 0 of an empty slot.
MaxTableCalls == 2
TableKeys ==
    {CollisionRootPart, SameSlotPart, KingAndPawnPart(2, 8, WHITE),
     compute_hash(EmptyBoard)}
TableDepths == {0, 2}
TableScores == {-7, 7}
TableMoves == {0, Bitboards_make_move(8, 16, MOVE_NORMAL, 0)}
TableFlags == {0, TT_EXACT}

tt_store_call(hash, depth, score, move, flag) ==
    /\ tt_call.calls < MaxTableCalls
    /\ statics' = [statics EXCEPT !.transposition_table =
                       tt_store(@, hash, depth, score, move, flag)]
    /\ tt_call' = [tt_call EXCEPT
                     !.calls = @ + 1,
                     !.stored = [slot \in DOMAIN @ \cup {tt_index(hash)} |->
                                   IF slot = tt_index(hash)
                                   THEN [hash |-> hash, depth |-> depth,
                                         score |-> score, move |-> move,
                                         flag |-> flag]
                                   ELSE @[slot]]]
    /\ UNCHANGED <<uciVars, params, go, bestmove, pending_stop, human, gui,
                   perft, movegen>>

tt_probe_call(hash, depth) ==
    /\ tt_call.calls < MaxTableCalls
    /\ tt_call' = [tt_call EXCEPT
                     !.calls = @ + 1,
                     !.probe = [called |-> TRUE, hash |-> hash,
                                depth |-> depth,
                                before |-> statics.transposition_table,
                                after |-> statics.transposition_table,
                                answer |-> tt_probe(
                                    statics.transposition_table, hash,
                                    depth)]]
    /\ UNCHANGED <<uciVars, statics, params, go, bestmove, pending_stop,
                   human, gui, perft, movegen>>

TableCallNext ==
    \/ \E hash \in TableKeys, depth \in TableDepths, score \in TableScores,
          move \in TableMoves, flag \in TableFlags :
           tt_store_call(hash, depth, score, move, flag)
    \/ \E hash \in TableKeys, depth \in TableDepths \cup {1} :
           tt_probe_call(hash, depth)

SpecTable == GameInit /\ [][TableCallNext]_vars

(***************************************************************************)
(* The two move generators called directly on boards of a king and two      *)
(* rooks on their home squares.                                             *)
(***************************************************************************)
\* The board of the side to move with the given castling rights (the other
\* side holds none), its king and rooks at home, one knight of its own on
\* the home-rank file `blocker` (-1: none), a pawn of its own on the
\* file `pawn` of its second rank (-1: none), the other king in the far
\* corner of the h-file and a rook of the other side on the file `attacker`
\* of the seventh rank as the side to move sees it (-1: none).
CastlingBoard(side, kingside, queenside, blocker, pawn, attacker) ==
    LET home == IF side = WHITE THEN 0 ELSE 56
        second == IF side = WHITE THEN 8 ELSE 48
        seventh == IF side = WHITE THEN 48 ELSE 8
        far == IF side = WHITE THEN 63 ELSE 7
        b0 == [EmptyBoard EXCEPT
                 !.side_to_move = side,
                 !.castling[side] = [w \in 0..1 |->
                                        IF w = 0 THEN kingside ELSE queenside]]
        b1 == add_piece(add_piece(add_piece(add_piece(b0,
                  home + 4, KING, side), home, ROOK, side),
                  home + 7, ROOK, side), far, KING, 1 - side)
        b2 == IF blocker = -1 THEN b1
              ELSE add_piece(b1, home + blocker, KNIGHT, side)
        b3 == IF pawn = -1 THEN b2
              ELSE add_piece(b2, second + pawn, PAWN, side)
    IN IF attacker = -1 THEN b3
       ELSE add_piece(b3, seventh + attacker, ROOK, 1 - side)

BlockerFiles == {-1, 1, 2, 3, 5, 6}
PawnFiles == {-1, 3}
AttackerFiles == {-1, 1, 2, 3, 4, 5, 6}

\* The board is set up.
movegen_board(board) ==
    /\ movegen.pc = "off"
    /\ movegen' = [pc |-> "board", board |-> board, moves |-> <<>>]
    /\ UNCHANGED <<uciVars, statics, params, go, bestmove, pending_stop,
                   human, gui, perft, tt_call>>

\* A call of Board::generate_moves.
Board_generate_moves_call ==
    /\ movegen.pc = "board"
    /\ movegen' = [movegen EXCEPT !.pc = "Board::generate_moves",
                                  !.moves = generate_moves(movegen.board)]
    /\ UNCHANGED <<uciVars, statics, params, go, bestmove, pending_stop,
                   human, gui, perft, tt_call>>

\* A call of generate_moves(board, list).
movegen_generate_moves_call ==
    /\ movegen.pc = "board"
    /\ movegen' = [movegen EXCEPT !.pc = "generate_moves",
                                  !.moves = movegen_generate_moves(movegen.board)]
    /\ UNCHANGED <<uciVars, statics, params, go, bestmove, pending_stop,
                   human, gui, perft, tt_call>>

MoveGenNext ==
    \/ \E side \in {WHITE, BLACK}, kingside \in BOOLEAN, queenside \in BOOLEAN,
          blocker \in BlockerFiles, pawn \in PawnFiles,
          attacker \in AttackerFiles :
           movegen_board(CastlingBoard(side, kingside, queenside, blocker,
                                       pawn, attacker))
    \/ Board_generate_moves_call
    \/ movegen_generate_moves_call

SpecMoveGen == GameInit /\ [][MoveGenNext]_vars

(***************************************************************************)
(* Properties of the position command.                                      *)
(***************************************************************************)
\* The latest apply_uci_move call: whether there was one, the board its fen
\* argument describes, and the board the returned string describes.
Called == last_call.uci # <<>>
LastBoard == set_from_fen(last_call.fen).board
CurBoard == set_from_fen(current_position).board

\* Legality by the rules of chess.  A king steps to any of the up to eight
\* neighbouring squares not held by a piece of its own colour, and attacks
\* all of them; the other moves and attacks are the generated ones.  A move
\* is legal when it leaves no king of the mover attacked.
Neighbours(sq) ==
    {sq2 \in Squares : /\ Abs(file_of(sq2) - file_of(sq)) <= 1
                       /\ Abs(rank_of(sq2) - rank_of(sq)) <= 1
                       /\ sq2 # sq}
RulesKingSteps(b) ==
    UNION {{Quiet(k, to) : to \in Neighbours(k) \ b.colors[b.side_to_move]} :
              k \in b.pieces[KING] \cap b.colors[b.side_to_move]}
RulesAttacked(b, sq, by) ==
    \/ is_square_attacked(b, sq, by)
    \/ Neighbours(sq) \cap b.pieces[KING] \cap b.colors[by] # {}
KingSafeAfter(b, m) ==
    LET nb == make_move(b, m)
        kings == nb.pieces[KING] \cap nb.colors[b.side_to_move]
    IN /\ kings # {}
       /\ \A k \in kings : ~RulesAttacked(nb, k, 1 - b.side_to_move)
RulesLegalMoves(b) ==
    {m \in SeqToSet(generate_moves(b)) \cup RulesKingSteps(b) : KingSafeAfter(b, m)}

\* C6: apply_uci_move(fen, uci) returns fen unchanged, character for
\* character, when uci is not the UCI string of a move legal in the position
\* fen describes, and otherwise the FEN of the successor make_move produces
\* for such a move.
C6_ApplyUciMove ==
    Called =>
        Bind(LastBoard, LAMBDA b :
            LET M == {m \in RulesLegalMoves(b) : move_to_uci(m) = last_call.uci}
            IN IF M = {} THEN current_position = last_call.fen
               ELSE \E m \in M : current_position = get_fen(make_move(b, m)))

\* The number of squares a FEN board field describes.
FieldSquares(str) ==
    LET cnt[i \in 0..Len(str)] ==
            IF i = 0 THEN 0
            ELSE cnt[i - 1] + (IF str[i] = "/" THEN 0 ELSE FenStep(str[i]))
    IN cnt[Len(str)]
Malformed(fen) ==
    LET toks == Tokens(fen)
    IN \/ Len(toks) < 2
       \/ FieldSquares(toks[1]) # 64
       \/ toks[2] \notin {<<"w">>, <<"b">>}

\* C7: set_from_fen reports failure for a FEN whose board field does not
\* describe exactly 64 squares or whose side token is neither w nor b, and
\* apply_uci_move returns such a FEN unchanged for every move string.
C7_MalformedFenRejected ==
    (Called /\ Malformed(last_call.fen)) =>
        /\ ~set_from_fen(last_call.fen).ok
        /\ current_position = last_call.fen

\* C8: after a legal move of any kind is applied, the en-passant square of
\* the successor is the skipped square when the move was a two-square pawn
\* push and none otherwise (so it never survives the following move).
C8_EnPassantSquare ==
    last_call.matched_move # 0 =>
        LET from == move_from(last_call.matched_move)
            to == move_to(last_call.matched_move)
            double_push == piece_at(LastBoard, from) = PAWN /\ Abs(to - from) = 16
        IN CurBoard.en_passant_square =
               IF double_push THEN (from + to) \div 2 ELSE -1

\* C9: a side holds the castling right of a wing only while its king stands
\* on its home square and its own rook stands on that wing's corner.
KingHome(c) == IF c = WHITE THEN 4 ELSE 60
RookCorner(c, w) == IF c = WHITE THEN (IF w = 0 THEN 7 ELSE 0)
                    ELSE (IF w = 0 THEN 63 ELSE 56)
CastlingRightsSound(b) ==
    \A c \in {WHITE, BLACK} : \A w \in 0..1 :
        b.castling[c][w] =>
            /\ KingHome(c) \in b.pieces[KING] \cap b.colors[c]
            /\ RookCorner(c, w) \in b.pieces[ROOK] \cap b.colors[c]
C9_CastlingRights == Bind(CurBoard, LAMBDA b : CastlingRightsSound(b))

\* The placement invariant of a board.
PlacementInvariant(b) ==
    /\ \A p \in PieceTypes : \A q \in PieceTypes :
           p # q => b.pieces[p] \cap b.pieces[q] = {}
    /\ b.colors[WHITE] \cap b.colors[BLACK] = {}
    /\ UNION {b.pieces[p] : p \in PieceTypes} = b.colors[WHITE] \cup b.colors[BLACK]
    /\ \A c \in {WHITE, BLACK} : Cardinality(b.pieces[KING] \cap b.colors[c]) = 1
    /\ \A sq \in b.pieces[PAWN] : rank_of(sq) \notin {0, 7}

\* C10: a legal move applied with make_move to a position that satisfies the
\* placement invariant yields a position that satisfies it.
C10_PlacementPreserved ==
    last_call.matched_move # 0 =>
        Bind(LastBoard, LAMBDA b :
            PlacementInvariant(b) =>
                PlacementInvariant(make_move(b, last_call.matched_move)))

(***************************************************************************)
(* Properties of the go command.  search() has returned when uci_pc is     *)
(* "searched"; go.board is the root, go.result the SearchResult.            *)
(***************************************************************************)
Returned == uci_pc = "searched"

\* C1: the best_move search() returns is the null move or a move generated
\* for the root that does not leave the king of the side that moved
\* attacked, whatever the limits, the moment the search stopped and the
\* HumanSelect setting.
C1_BestMoveNeverIllegal ==
    Returned =>
        \/ go.result.best_move = 0
        \/ /\ go.result.best_move \in SeqToSet(generate_moves(go.board))
           /\ KingSafeAfter(go.board, go.result.best_move)

\* C2: when the position of the go command has a legal move, the string
\* printed after "bestmove" is the UCI string of a move legal there.
C2_PrintedMoveLegal ==
    bestmove # <<>> =>
        Bind(RulesLegalMoves(go.board), LAMBDA legal :
            legal # {} => \E m \in legal : move_to_uci(m) = bestmove)

\* C3: when should_stop answered true inside iteration d > 1, the loop of
\* search() leaves result and the root's transposition-table entry as the
\* completed iteration d - 1 left them.
C3_AbortedIterationDiscarded ==
    (uci_pc = "search" /\ go.left /\ go.aborted > 1) =>
        /\ go.result = go.completed.result
        /\ tt_entry(statics.transposition_table, compute_hash(go.board)) =
               go.completed.entry

\* C4: search() returns a non-null best_move whenever the root has a legal
\* move, also when no iteration ran or none completed.
C4_NonNullBestMove ==
    (Returned /\ RulesLegalMoves(go.board) # {}) => go.result.best_move # 0

\* C5: when a "stop" line arrived while search() was running and search()
\* polled should_stop after that, search() has returned with the stop flag
\* set and before its time limit had elapsed.
C5_StopRequestHonoured ==
    (Returned /\ go.stop_request >= 0 /\ statics.clock > go.stop_request + 1)
        => /\ statics.stop_search
           /\ statics.clock <= statics.max_time_ms

(***************************************************************************)
(* The perft mode of main(): Search::perft.                                 *)
(***************************************************************************)
RECURSIVE perft_recursive(_, _)
RECURSIVE PerftNodes(_, _, _, _)
\* The loop of perft_recursive from the i-th move on.
PerftNodes(board, moves, i, depth) ==
    IF i > Len(moves) THEN 0
    ELSE IF ~is_legal(board, moves[i])
    THEN PerftNodes(board, moves, i + 1, depth)
    ELSE (IF depth > 1
          THEN perft_recursive(make_move(board, moves[i]), depth - 1)
          ELSE 1) + PerftNodes(board, moves, i + 1, depth)

perft_recursive(board, depth) ==
    IF depth = 0 THEN 1
    ELSE PerftNodes(board, generate_moves(board), 1, depth)

perft3_reference ==
    [u \in {} |-> 0] @@
    (S("a2a3") :> 380) @@ (S("a2a4") :> 420) @@ (S("b2b3") :> 420) @@
    (S("b2b4") :> 421) @@ (S("c2c3") :> 420) @@ (S("c2c4") :> 441) @@
    (S("d2d3") :> 539) @@ (S("d2d4") :> 560) @@ (S("e2e3") :> 580) @@
    (S("e2e4") :> 579) @@ (S("f2f3") :> 380) @@ (S("f2f4") :> 401) @@
    (S("g2g3") :> 420) @@ (S("g2g4") :> 421) @@ (S("h2h3") :> 380) @@
    (S("h2h4") :> 420) @@ (S("b1a3") :> 400) @@ (S("b1c3") :> 440) @@
    (S("g1f3") :> 440) @@ (S("g1h3") :> 400)

\* The line perft prints for a legal move with its count: "(ok)" or
\* "MISMATCH" at depth 3 for a move of the reference, the count alone
\* otherwise.
PerftLine(move_uci, count, depth) ==
    [move_uci |-> move_uci, count |-> count,
     mark |-> IF move_uci \in DOMAIN perft3_reference /\ depth = 3
              THEN IF count # perft3_reference[move_uci]
                   THEN "MISMATCH" ELSE "ok"
              ELSE ""]

\* The positions and the depths perft mode is started with.
PerftFens ==
    { STARTPOS_FEN,
      S("4k3/8/8/8/8/8/4P3/4K3 w - - 0 1"),
      S("4k3/8/8/8/8/8/4r3/4K3 w - - 0 1"),
      S("r3k2r/8/8/8/8/8/8/R3K2R b KQkq - 0 1") }
MaxPerftDepth == 3

\* main() with "perft <depth> <fen>": the board is set up and perft() lists
\* the moves.
main_perft(depth, fen) ==
    /\ perft.pc = "off"
    /\ perft' = [NoPerft EXCEPT
                   !.pc = "moves", !.fen = fen,
                   !.board = set_from_fen(fen).board,
                   !.depth = stoi(depth),
                   !.moves = generate_moves(set_from_fen(fen).board),
                   !.i = 1]
    /\ UNCHANGED <<uciVars, statics, params, go, bestmove, pending_stop,
                   human, gui, tt_call, movegen>>

\* One turn of the loop of perft() over the moves.
perft_move ==
    /\ perft.pc = "moves"
    /\ perft.i <= Len(perft.moves)
    /\ LET move == perft.moves[perft.i]
           move_uci == move_to_uci(move)
       IN IF ~is_legal(perft.board, move)
          THEN perft' = [perft EXCEPT
                   !.i = @ + 1,
                   !.lines = Append(@, [move_uci |-> move_uci, count |-> 0,
                                        mark |-> "ILLEGAL"])]
          ELSE \E count \in {IF perft.depth > 1
                              THEN perft_recursive(
                                       make_move(perft.board, move),
                                       perft.depth - 1)
                              ELSE 1} :
                   perft' = [perft EXCEPT
                       !.i = @ + 1,
                       !.lines = Append(@, PerftLine(move_uci, count,
                                                     perft.depth)),
                       !.total_nodes = @ + count]
    /\ UNCHANGED <<uciVars, statics, params, go, bestmove, pending_stop,
                   human, gui, tt_call, movegen>>

\* perft() after its loop: the total is printed.
perft_total ==
    /\ perft.pc = "moves"
    /\ perft.i > Len(perft.moves)
    /\ perft' = [perft EXCEPT !.pc = "done"]
    /\ UNCHANGED <<uciVars, statics, params, go, bestmove, pending_stop,
                   human, gui, tt_call, movegen>>

PerftNext ==
    \/ \E depth \in 1..MaxPerftDepth, fen \in PerftFens :
           main_perft(to_string(depth), fen)
    \/ perft_move
    \/ perft_total

SpecPerft == GameInit /\ [][PerftNext]_vars

(***************************************************************************)
(* Properties of the repetition stack.                                      *)
(***************************************************************************)
\* The hashes of the positions the move loop of cmd_position went through
\* before it reached the position of its n-th token from fen.
RECURSIVE GameHashes(_, _, _)
GameHashes(fen, moves, n) ==
    IF n = 0 THEN <<>>
    ELSE <<compute_hash(set_from_fen(fen).board)>> \o
         GameHashes(apply_uci_move(fen, Head(moves)), Tail(moves), n - 1)

\* C11: while search() runs, the hash of every position the game passed
\* through before the root (the positions before each move of the
\* "position ... moves" line) is on position_history.
C11_GameLineOnStack ==
    uci_pc = "search" =>
        \A h \in SeqToSet(GameHashes(PositionFen(gui.head), gui.line,
                                      Len(gui.line))) :
            h \in SeqToSet(statics.position_history)

\* C12: a node of the search that stands at a position with halfmove clock
\* >= 100, or at one whose hash is at least twice on position_history,
\* returns 0 (or the bound of its window nearest to 0), in alpha_beta and
\* in quiescence_search alike.
C12_DrawnPositionsScoredZero == statics.drawn.nonzero = {}

(***************************************************************************)
(* Properties of the result of search().                                    *)
(***************************************************************************)
\* The moves of the side to move that checkmate, by the rules of chess.
MatingMoves(b) ==
    {m \in RulesLegalMoves(b) :
        LET nb == make_move(b, m)
        IN /\ \E k \in nb.pieces[KING] \cap nb.colors[nb.side_to_move] :
                  RulesAttacked(nb, k, b.side_to_move)
           /\ RulesLegalMoves(nb) = {}}

\* search() has run every iteration up to its depth limit, and should_stop
\* never answered true.
RanToDepth ==
    Returned /\ ~statics.fired /\ go.depth > go.max_search_depth

\* C13: when the side to move has a move that checkmates and search() has
\* run to a depth limit >= 1 with HumanSelect disabled, the score it returns
\* is greater than MATE_BOUND and its best_move checkmates.
C13_MateInOneFound ==
    (RanToDepth /\ go.max_search_depth >= 1 /\ ~params.human_select
        /\ MatingMoves(go.board) # {})
        => /\ go.result.score > MATE_BOUND
           /\ go.result.best_move \in MatingMoves(go.board)

Picked == human.calls > 0 /\ human.last.called

\* Static states of seeded_random a selection may start from.
GeneratorStates ==
    {1, seeded_random_c, seeded_random(0, 1), human.state} \cup
    (IF Picked THEN {human.last.before} ELSE {})

\* The move the latest selection would have returned had the static state
\* of seeded_random been st when it began.
PickFrom(st) ==
    pick_human_move(human.last.candidates, human.last.candidates[1].score,
                    human.last.params, st).move

\* C15: with a non-zero RandomSeed, the move pick_human_move returns for
\* given candidates and parameters does not depend on the static state
\* that earlier selections left in seeded_random.
C15_SeededPickReproducible ==
    (Picked /\ human.last.params.random_seed # 0)
        => \A st \in GeneratorStates : PickFrom(st) = human.last.move

C15_Witness ==
    /\ Picked /\ human.last.params.random_seed # 0
    /\ human.calls >= 2 /\ human.last.before # 1
    /\ human.last.move # human.last.candidates[1].move

\* C16: with RandomSeed = 0 the move pick_human_move returns for given
\* candidates and parameters depends on a source outside them (some other
\* state of the generator gives another move), and with a non-zero seed it
\* does not.
C16_SeedZeroNondeterministic ==
    Picked =>
        IF human.last.params.random_seed = 0
        THEN \E st \in GeneratorStates : PickFrom(st) # human.last.move
        ELSE \A st \in GeneratorStates : PickFrom(st) = human.last.move

\* The score collect_candidates computes for a move before any penalty, and
\* the moves it computes one for.
StaticScore(board, move) == Evaluation_evaluate(CandidateBoard(board, move))
ScoredMoves(board) ==
    {m \in SeqToSet(generate_moves(board)) :
        /\ piece_at(board, move_from(m)) # 0
        /\ ~is_in_check(CandidateBoard(board, m), board.side_to_move)}

ClockDerived ==
    /\ go.tokens # <<>>
    /\ GoParameter(go.tokens, S("movetime"), -1) = -1
    /\ ~GoInfinite(go.tokens)
    /\ GoMyTime(go.tokens, go.board) > 0

\* C18: the time limit go derives from a remaining clock > 0 lies between
\* max(clock/40, 50 ms) and min(clock/8, 30 s).
C18_ClockBudget ==
    ClockDerived =>
        LET clock == GoMyTime(go.tokens, go.board)
        IN /\ statics.max_time_ms >= MaxOf({clock \div 40, 50})
           /\ statics.max_time_ms <= MinOf({clock \div 8, 30000})

(***************************************************************************)
(* Properties of perft.                                                     *)
(***************************************************************************)
\* The known node counts from the standard initial position.
KnownPerft == <<20, 400, 8902>>

\* The sum of the reference counts of the given moves.
RECURSIVE ReferenceSum(_)
ReferenceSum(us) ==
    IF us = {} THEN 0
    ELSE LET u == CHOOSE u \in us : TRUE
         IN perft3_reference[u] + ReferenceSum(us \ {u})

\* C19: from the standard initial position perft(1) = 20, perft(2) = 400
\* and perft(3) = 8902, and at depth 3 every root move is reported as
\* matching its reference count, the reference holding e2e4 600, g1f3 440
\* and b1c3 440 and summing to 8902.
C19_PerftInitialPosition ==
    (perft.pc # "off" /\ perft.fen = STARTPOS_FEN) =>
        /\ perft.pc = "done" => perft.total_nodes = KnownPerft[perft.depth]
        /\ perft.depth = 3 =>
               /\ \A i \in 1..Len(perft.lines) : perft.lines[i].mark = "ok"
               /\ perft3_reference[S("e2e4")] = 600
               /\ perft3_reference[S("g1f3")] = 440
               /\ perft3_reference[S("b1c3")] = 440
               /\ ReferenceSum(DOMAIN perft3_reference) = 8902

(***************************************************************************)
(* Properties of the transposition table.                                   *)
(***************************************************************************)
\* C20: every move read from an entry of the transposition table and used,
\* in alpha_beta, for the root's best move or in extract_pv, is a legal
\* move of the position it is used in, also when the entry was written for
\* another position with the same slot or the same key; the score of an
\* entry whose move is not legal there is not used either.
C20_TableMovesLegal == statics.tt_use.illegal = {}

C20_Witness ==
    /\ Returned
    /\ statics.tt_use.dropped = {"alpha_beta", "search", "extract_pv"}

\* C21: each slot holds the fields of the latest store whose key maps to it;
\* tt_probe answers true only when the slot's key is the probed one, the
\* entry is not empty and its depth suffices, it then hands out that
\* entry's score and move, and it changes no slot.
C21_StoreReplacesProbeVerifies ==
    /\ DOMAIN statics.transposition_table = DOMAIN tt_call.stored
    /\ \A slot \in DOMAIN tt_call.stored :
           statics.transposition_table[slot] = tt_call.stored[slot]
    /\ tt_call.probe.called =>
           LET p == tt_call.probe
               slot == tt_index(p.hash)
               e == IF slot \in DOMAIN p.before THEN p.before[slot]
                    ELSE EmptyEntry
           IN /\ p.after = p.before
              /\ p.answer.hit =>
                     /\ e.hash = p.hash
                     /\ e.flag # 0
                     /\ e.depth >= p.depth
                     /\ p.answer.score = e.score
                     /\ p.answer.move = e.move

C21_Witness ==
    /\ tt_call.probe.called
    /\ ~tt_call.probe.answer.hit
    /\ tt_call.probe.hash = CollisionRootPart
    /\ tt_index(CollisionRootPart) \in DOMAIN tt_call.probe.before
    /\ tt_call.probe.before[tt_index(CollisionRootPart)].hash = SameSlotPart
    /\ tt_call.probe.before[tt_index(CollisionRootPart)].flag # 0
    /\ tt_call.probe.before[tt_index(CollisionRootPart)].depth >= tt_call.probe.depth

\* C22: alpha_beta uses the score of a hit by the entry's flag: on an exact
\* entry of sufficient depth the node returns the stored score, an
\* upper-bound entry (TT_ALPHA) never makes it return beta and a
\* lower-bound entry (TT_BETA) never makes it return alpha.
C22_BoundFlagRespected ==
    \A u \in statics.tt_use.score :
        /\ u.flag = TT_EXACT => u.returned_stored
        /\ u.flag = TT_ALPHA => u.did # "beta"
        /\ u.flag = TT_BETA => u.did # "alpha"

\* C23: position_history is a balanced stack: at every return of
\* alpha_beta, normal, by cutoff, draw, table hit, null move or abort, its
\* content is what it was at the entry, and it is empty when search()
\* returns.
C23_HistoryBalanced ==
    /\ statics.stack.balanced
    /\ Returned => statics.position_history = <<>>

C23_Witness ==
    /\ Returned
    /\ statics.fired
    /\ go.aborted >= 2
    /\ statics.stack.max >= 2

\* C24: every castling move either generator emits is for a wing whose
\* right the side to move holds, with its king not in check, every square
\* strictly between the king and that wing's rook empty, and neither the
\* square the king crosses nor the square it lands on attacked by the
\* opponent.
C24_CastlingConditions ==
    movegen.pc \in {"Board::generate_moves", "generate_moves"} =>
        \A i \in 1..Len(movegen.moves) :
            LET m == movegen.moves[i]
                b == movegen.board
                side == b.side_to_move
                from == move_from(m)
                to == move_to(m)
                wing == IF to > from THEN 0 ELSE 1
                rook == IF wing = 0 THEN 8 * rank_of(from) + 7
                        ELSE 8 * rank_of(from)
                between == {s \in Squares :
                               \/ from < s /\ s < rook
                               \/ rook < s /\ s < from}
                crossed == IF wing = 0 THEN from + 1 ELSE from - 1
            IN move_flags(m) = MOVE_CASTLE =>
                   /\ b.castling[side][wing]
                   /\ ~is_in_check(b, side)
                   /\ \A s \in between : is_empty(b, s)
                   /\ ~is_square_attacked(b, crossed, 1 - side)
                   /\ ~is_square_attacked(b, to, 1 - side)

\* C25: collect_candidates scores exactly the root's legal moves, and the
\* board it evaluates for a move has the piece placement and the piece
\* colours of the successor make_move produces for that move.
C25_CandidateBoardIsSuccessor ==
    human.calls > 0 =>
        LET b == human.last.board
        IN /\ ScoredMoves(b) = LegalMoveSet(b)
           /\ \A m \in ScoredMoves(b) :
                  /\ CandidateBoard(b, m).pieces = make_move(b, m).pieces
                  /\ CandidateBoard(b, m).colors = make_move(b, m).colors

\* The candidates the epilogue of the search that has returned collected
\* at its root.
RootCandidates ==
    collect_candidates(go.board, params.candidate_margin_cp,
        params.candidate_moves_max, params.human_hard_floor_cp,
        params.human_opening_sanity, params.human_topk_override,
        go.board.halfmove_clock)

\* Whether the search that has returned went through human selection.
HumanSelectionRan ==
    /\ Returned
    /\ params.human_select
    /\ ~statics.stop_search
    /\ go.result.best_move # 0

GamePly(board) == 2 * (board.fullmove_number - 1) + board.side_to_move

\* C27: the opening-sanity penalty is applied only when the root lies
\* within the first 12 plies of the game: for a later root the list of
\* collect_candidates is the list it returns with the penalty switched off
\* (HumanOpeningSanity 0).
C27_PenaltyOnlyInOpening ==
    human.calls > 0 /\ GamePly(human.last.board) >= 12 =>
        LET b == human.last.board
            p == human.last.params
        IN human.last.candidates =
               collect_candidates(b, p.candidate_margin_cp,
                   p.candidate_moves_max, p.human_hard_floor_cp, 0,
                   p.human_topk_override, b.halfmove_clock)

\* C28: a node without a legal move returns -MATE_SCORE + ply when the side
\* to move is in check and 0 otherwise, ply being the node's distance from
\* the root of the search.
C28_MateScoreByPly ==
    \A n \in statics.mates :
        n.score = IF n.in_check THEN -MATE_SCORE + n.ply ELSE 0

\* The value of the pieces other than pawns the side has on the board part.
NonPawnMaterial(part, color) ==
    320 * Cardinality(part.pieces[KNIGHT] \cap part.colors[color]) +
    330 * Cardinality(part.pieces[BISHOP] \cap part.colors[color]) +
    500 * Cardinality(part.pieces[ROOK] \cap part.colors[color]) +
    900 * Cardinality(part.pieces[QUEEN] \cap part.colors[color])

\* C29: alpha_beta plays a null move only at a node where the side to move
\* is not in check, the node is not the child of a null move, depth >= 3 and
\* the side's material without its pawns exceeds the threshold of 400; the
\* null child is the node's position with the side toggled and en passant
\* cleared, searched at depth - 1 - 2 with window [-beta, -beta + 1].
C29_NullMoveConditions ==
    \A n \in statics.nulls :
        /\ ~n.in_check
        /\ n.allow_null
        /\ n.depth >= 3
        /\ NonPawnMaterial(n.node, n.color) > 400
        /\ n.child.board = [n.node EXCEPT !.side_to_move = 1 - n.color,
                                          !.en_passant_square = -1]
        /\ n.child.depth = n.depth - 1 - 2
        /\ n.child.alpha = -n.beta
        /\ n.child.beta = -n.beta + 1

\* C30: a beta cutoff by a capture changes neither the killer slots nor the
\* history table; a beta cutoff by a quiet move makes the move the first
\* killer of the node, the previous first killer the second, never the
\* same non-zero move in both slots, and adds depth squared to
\* history[from][to].
C30_QuietCutoffBookkeeping ==
    \A c \in statics.cutoffs :
        IF c.capture
        THEN ~c.changed
        ELSE /\ c.killers_after[1] = c.move
             /\ c.killers_before[1] # c.move =>
                    c.killers_after[2] = c.killers_before[1]
             /\ c.killers_after[1] # c.killers_after[2]
             /\ c.history_after = c.history_before + c.depth * c.depth
====
